---- MODULE Spec2Model ----
(***************************************************************************)
(* Web crawler & page analyzer: the job store (tables analyses and         *)
(* broken_links), the request handlers, the worker loop (startWorker) and  *)
(* the executions it spawns (processAnalysis).                             *)
(*                                                                         *)
(* The store is MySQL/InnoDB: a statement run with db.Exec is applied at   *)
(* once (autocommit); the statements run on a transaction (tx.Exec) are    *)
(* buffered in the execution and applied together by tx.Commit; the        *)
(* transaction's UPDATE holds the row's lock until commit or rollback, so  *)
(* other writers of that row wait.  Every statement of an execution and    *)
(* of the worker may fail (connection error, lock wait timeout): the code  *)
(* has a branch for each failure, and so has the model.                    *)
(***************************************************************************)
EXTENDS Integers, Sequences, FiniteSets, TLC

\* Bounds of the model.
MaxJobs == 2          \* submissions (ids 1..MaxJobs)
MaxRuns == 2          \* executions spawned by the worker over a behaviour
MaxNodes == 3         \* nodes under the root of an enumerated document
MaxAttrs == 2         \* attributes of a node of an enumerated document
MaxTitleNodes == 4    \* nodes under the root of a document with titles

JobIds == 1..MaxJobs
RunIds == 1..MaxRuns

NULL == "NULL"

----------------------------------------------------------------------------
\* Strings the code inspects are sequences of characters, so that the
\* functions of package strings and net/url are computed on them.

Lower == <<"a", "b", "c", "d", "e", "f", "g", "h", "i", "j", "k", "l", "m",
           "n", "o", "p", "q", "r", "s", "t", "u", "v", "w", "x", "y", "z">>
Upper == <<"A", "B", "C", "D", "E", "F", "G", "H", "I", "J", "K", "L", "M",
           "N", "O", "P", "Q", "R", "S", "T", "U", "V", "W", "X", "Y", "Z">>

\* strings.HasPrefix
HasPrefix(s, prefix) ==
    Len(s) >= Len(prefix) /\ SubSeq(s, 1, Len(prefix)) = prefix

\* strings.Contains
Contains(s, substr) ==
    \E i \in 0..(Len(s) - Len(substr)) : SubSeq(s, i + 1, i + Len(substr)) = substr

\* strings.ToLower
ToLower(s) ==
    [i \in 1..Len(s) |->
        IF \E k \in DOMAIN Upper : Upper[k] = s[i]
        THEN Lower[CHOOSE k \in DOMAIN Upper : Upper[k] = s[i]]
        ELSE s[i]]

\* strings.Index(s, "/") counted from 1; 0 when there is none.
IndexSlash(s) ==
    IF \E i \in DOMAIN s : s[i] = "/"
    THEN CHOOSE i \in DOMAIN s : s[i] = "/" /\ \A j \in 1..(i - 1) : s[j] # "/"
    ELSE 0

\* strings.LastIndex(s, "/") counted from 1; 0 when there is none.
LastIndexSlash(s) ==
    IF \E i \in DOMAIN s : s[i] = "/"
    THEN CHOOSE i \in DOMAIN s : s[i] = "/" /\ \A j \in (i + 1)..Len(s) : s[j] # "/"
    ELSE 0

\* The URL value of net/url (no user, query or fragment: the hrefs of the
\* model carry none).
NoURL == [err |-> TRUE, Scheme |-> <<>>, Opaque |-> <<>>, Host |-> <<>>, Path |-> <<>>]

RECURSIVE getScheme(_, _)
\* net/url getScheme: the scheme is the run of letters, digits, + - . before
\* the first colon; a colon in front is an error.
getScheme(rawURL, i) ==
    IF i > Len(rawURL)
    THEN [err |-> FALSE, scheme |-> <<>>, rest |-> rawURL]
    ELSE LET c == rawURL[i]
         IN  IF \E k \in DOMAIN Lower : c = Lower[k] \/ c = Upper[k]
             THEN getScheme(rawURL, i + 1)
             ELSE IF c \in {"0", "1", "2", "3", "4", "5", "6", "7", "8", "9",
                            "+", "-", "."}
             THEN IF i = 1
                  THEN [err |-> FALSE, scheme |-> <<>>, rest |-> rawURL]
                  ELSE getScheme(rawURL, i + 1)
             ELSE IF c = ":"
             THEN IF i = 1
                  THEN [err |-> TRUE, scheme |-> <<>>, rest |-> <<>>]
                  ELSE [err |-> FALSE, scheme |-> SubSeq(rawURL, 1, i - 1),
                        rest |-> SubSeq(rawURL, i + 1, Len(rawURL))]
             ELSE [err |-> FALSE, scheme |-> <<>>, rest |-> rawURL]

\* url.Parse
Parse(rawURL) ==
    LET s == getScheme(rawURL, 1)
        rest == s.rest
        seg == IF IndexSlash(rest) = 0 THEN rest
               ELSE SubSeq(rest, 1, IndexSlash(rest) - 1)
    IN  IF s.err THEN NoURL
        ELSE IF ~HasPrefix(rest, <<"/">>) /\ s.scheme # <<>>
        THEN [err |-> FALSE, Scheme |-> ToLower(s.scheme), Opaque |-> rest,
              Host |-> <<>>, Path |-> <<>>]
        ELSE IF ~HasPrefix(rest, <<"/">>) /\ Contains(seg, <<":">>)
        THEN NoURL
        ELSE IF HasPrefix(rest, <<"/", "/">>) /\ ~HasPrefix(rest, <<"/", "/", "/">>)
        THEN LET after == SubSeq(rest, 3, Len(rest))
                 cut == IndexSlash(after)
             IN  [err |-> FALSE, Scheme |-> ToLower(s.scheme), Opaque |-> <<>>,
                  Host |-> IF cut = 0 THEN after ELSE SubSeq(after, 1, cut - 1),
                  Path |-> IF cut = 0 THEN <<>> ELSE SubSeq(after, cut, Len(after))]
        ELSE [err |-> FALSE, Scheme |-> ToLower(s.scheme), Opaque |-> <<>>,
              Host |-> <<>>, Path |-> rest]

RECURSIVE resolveSegments(_, _, _)
\* The loop of net/url resolvePath over the segments of the path: dst is the
\* path built so far (after its leading slash), first tells that nothing
\* stands in it.
resolveSegments(remaining, dst, first) ==
    LET cut == IndexSlash(remaining)
        elem == IF cut = 0 THEN remaining ELSE SubSeq(remaining, 1, cut - 1)
        next == IF elem = <<".">> THEN [dst |-> dst, first |-> FALSE]
                ELSE IF elem = <<".", ".">>
                THEN IF LastIndexSlash(dst) = 0
                     THEN [dst |-> <<>>, first |-> TRUE]
                     ELSE [dst |-> SubSeq(dst, 1, LastIndexSlash(dst) - 1),
                           first |-> first]
                ELSE [dst |-> (IF first THEN dst ELSE dst \o <<"/">>) \o elem,
                      first |-> FALSE]
    IN  IF cut = 0
        THEN IF elem = <<".">> \/ elem = <<".", ".">>
             THEN next.dst \o <<"/">> ELSE next.dst
        ELSE resolveSegments(SubSeq(remaining, cut + 1, Len(remaining)),
                             next.dst, next.first)

\* net/url resolvePath
resolvePath(base, ref) ==
    LET full == IF ref = <<>> THEN base
                ELSE IF ref[1] # "/"
                THEN SubSeq(base, 1, LastIndexSlash(base)) \o ref
                ELSE ref
        r == <<"/">> \o resolveSegments(full, <<>>, TRUE)
    IN  IF full = <<>> THEN <<>>
        ELSE IF Len(r) > 1 /\ r[2] = "/" THEN Tail(r) ELSE r

\* A resolution that returns the reference as written.
ResolveReferenceAsWritten(base, ref) == ref

\* (*URL).ResolveReference
ResolveReference(base, ref) ==
    IF ref.Scheme # <<>>
    THEN IF ref.Opaque # <<>> THEN ref
         ELSE [ref EXCEPT !.Path = resolvePath(ref.Path, <<>>)]
    ELSE IF ref.Host # <<>>
    THEN [ref EXCEPT !.Scheme = base.Scheme, !.Path = resolvePath(ref.Path, <<>>)]
    ELSE IF ref.Path = <<>> /\ base.Opaque # <<>>
    THEN [base EXCEPT !.Host = <<>>, !.Path = <<>>]
    ELSE [err |-> FALSE, Scheme |-> base.Scheme, Opaque |-> <<>>,
          Host |-> base.Host, Path |-> resolvePath(base.Path, ref.Path)]

\* (*URL).String
String(u) ==
    (IF u.Scheme # <<>> THEN u.Scheme \o <<":">> ELSE <<>>)
    \o (IF u.Opaque # <<>> THEN u.Opaque
        ELSE (IF (u.Scheme # <<>> \/ u.Host # <<>>) /\ (u.Host # <<>> \/ u.Path # <<>>)
              THEN <<"/", "/">> \o u.Host ELSE <<>>)
             \o (IF u.Path # <<>> /\ u.Path[1] # "/" /\ u.Host # <<>>
                 THEN <<"/">> ELSE <<>>)
             \o u.Path)

\* The URL submitted, and the target of a link that is down.
ExampleCom == <<"h", "t", "t", "p", "s", ":", "/", "/",
                "e", "x", "a", "m", "p", "l", "e", ".", "c", "o", "m">>
Urls == {ExampleCom}
DeadLink == <<"h", "t", "t", "p", "s", ":", "/", "/", "d", "e", "a", "d", ".",
              "e", "x", "a", "m", "p", "l", "e", "/", "g", "o", "n", "e">>

----------------------------------------------------------------------------
\* The document tree html.Parse returns: the nodes in pre-order, each with
\* the index of its parent (0 for the root); the children of a node are the
\* nodes that name it as parent, in order (FirstChild, NextSibling).

Node(type, data, attr, parent) ==
    [Type |-> type, Data |-> data, Attr |-> attr, parent |-> parent]
Attribute(key, val) == [Key |-> key, Val |-> val]

\* n.FirstChild, c.NextSibling, ...: the children of node n in order.
Children(doc, n) ==
    LET RECURSIVE from(_)
        from(k) == IF k > Len(doc) THEN <<>>
                   ELSE IF doc[k].parent = n THEN <<k>> \o from(k + 1)
                   ELSE from(k + 1)
    IN  from(n + 1)

\* The Analysis analyzeURL starts from.
NewAnalysis(urlStr) ==
    [fetched |-> TRUE, URL |-> urlStr, HTMLVersion |-> "", Title |-> "",
     H1Count |-> 0, H2Count |-> 0, H3Count |-> 0,
     H4Count |-> 0, H5Count |-> 0, H6Count |-> 0,
     InternalLinks |-> 0, ExternalLinks |-> 0,
     BrokenLinks |-> <<>>, InaccessibleLinks |-> 0, HasLoginForm |-> FALSE]

RECURSIVE countHrefs(_, _)
\* case "a": the loop over n.Attr.
countHrefs(attrs, analysis) ==
    IF attrs = <<>> THEN analysis
    ELSE countHrefs(Tail(attrs),
             IF Head(attrs).Key = "href"
             THEN IF HasPrefix(Head(attrs).Val, <<"h", "t", "t", "p">>)
                  THEN [analysis EXCEPT !.ExternalLinks = @ + 1]
                  ELSE [analysis EXCEPT !.InternalLinks = @ + 1]
             ELSE analysis)

\* case "form": the loop over n.Attr finds an action that names a login.
actionIsLogin(attrs) ==
    \E k \in DOMAIN attrs :
        /\ attrs[k].Key = "action"
        /\ \/ Contains(attrs[k].Val, <<"l", "o", "g", "i", "n">>)
           \/ Contains(attrs[k].Val, <<"s", "i", "g", "n", "i", "n">>)

\* checkForPassword, were it to look at the children of the form only.
checkForPasswordShallow(doc, child) ==
    \E c \in { j \in DOMAIN doc : doc[j].parent = child } :
        /\ doc[c].Type = "ElementNode"
        /\ doc[c].Data = "input"
        /\ \E k \in DOMAIN doc[c].Attr :
               /\ doc[c].Attr[k].Key = "type"
               /\ doc[c].Attr[k].Val = <<"p", "a", "s", "s", "w", "o", "r", "d">>

RECURSIVE checkForPassword(_, _)
\* checkForPassword(child): TRUE when the call sets HasLoginForm.
checkForPassword(doc, child) ==
    LET n == doc[child]
        cs == Children(doc, child)
    IN  IF /\ n.Type = "ElementNode"
           /\ n.Data = "input"
           /\ \E k \in DOMAIN n.Attr :
                  /\ n.Attr[k].Key = "type"
                  /\ n.Attr[k].Val = <<"p", "a", "s", "s", "w", "o", "r", "d">>
        THEN TRUE
        ELSE \E k \in DOMAIN cs : checkForPassword(doc, cs[k])

\* The switch of the walker f on one node.
visit(doc, i, analysis) ==
    LET n == doc[i]
        cs == Children(doc, i)
    IN  IF n.Type # "ElementNode" THEN analysis
        ELSE CASE n.Data = "title" ->
                      IF cs # <<>> THEN [analysis EXCEPT !.Title = doc[cs[1]].Data]
                      ELSE analysis
               [] n.Data = "h1" -> [analysis EXCEPT !.H1Count = @ + 1]
               [] n.Data = "h2" -> [analysis EXCEPT !.H2Count = @ + 1]
               [] n.Data = "h3" -> [analysis EXCEPT !.H3Count = @ + 1]
               [] n.Data = "h4" -> [analysis EXCEPT !.H4Count = @ + 1]
               [] n.Data = "h5" -> [analysis EXCEPT !.H5Count = @ + 1]
               [] n.Data = "h6" -> [analysis EXCEPT !.H6Count = @ + 1]
               [] n.Data = "a" -> countHrefs(n.Attr, analysis)
               [] n.Data = "form" ->
                      IF actionIsLogin(n.Attr)
                      THEN [analysis EXCEPT !.HasLoginForm = TRUE]
                      ELSE IF ~analysis.HasLoginForm /\ checkForPassword(doc, i)
                      THEN [analysis EXCEPT !.HasLoginForm = TRUE]
                      ELSE analysis
               [] OTHER -> analysis

\* The walker, were it to stop below the children of the node it starts at.
fShallow(doc, i, analysis) ==
    LET cs == Children(doc, i)
        RECURSIVE each(_, _)
        each(k, a) == IF k > Len(cs) THEN a ELSE each(k + 1, visit(doc, cs[k], a))
    IN  each(1, visit(doc, i, analysis))

RECURSIVE f(_, _, _)
\* The walker f of analyzeURL: the node, then its children in order.
f(doc, i, analysis) ==
    LET cs == Children(doc, i)
        RECURSIVE each(_, _)
        each(k, a) == IF k > Len(cs) THEN a ELSE each(k + 1, f(doc, cs[k], a))
    IN  each(1, visit(doc, i, analysis))

\* The walker f of getHTMLVersion: version after the walk of node i.  The
\* return at a doctype node ends that call; the loop of the caller goes on.
RECURSIVE findDoctype(_, _, _)
findDoctype(doc, i, version) ==
    IF doc[i].Type = "DoctypeNode" THEN doc[i].Data
    ELSE LET cs == Children(doc, i)
             RECURSIVE each(_, _)
             each(k, v) == IF k > Len(cs) THEN v
                           ELSE each(k + 1, findDoctype(doc, cs[k], v))
         IN  each(1, version)

getHTMLVersion(doc) ==
    LET version == findDoctype(doc, 1, <<>>)
        lower == ToLower(version)
    IN  IF \/ Contains(lower, <<"h", "t", "m", "l", " ", "5">>)
           \/ version = <<"h", "t", "m", "l">>
        THEN "HTML5"
        ELSE IF Contains(lower, <<"x", "h", "t", "m", "l", " ", "1", ".", "1">>)
        THEN "XHTML 1.1"
        ELSE IF Contains(lower, <<"x", "h", "t", "m", "l", " ", "1", ".", "0">>)
        THEN "XHTML 1.0"
        ELSE IF Contains(lower, <<"h", "t", "m", "l", " ", "4", ".", "0", "1">>)
        THEN "HTML 4.01"
        ELSE IF Contains(lower, <<"h", "t", "m", "l", " ", "4", ".", "0">>)
        THEN "HTML 4.0"
        ELSE "HTML5"

\* The answer of the network to one probe.
Response(err, statusCode) == [err |-> err, StatusCode |-> statusCode]

\* client.Get(resolvedLink.String()): the client refuses a URL that is not
\* http(s) or has no host; else the network answers.
Get(u, answer) ==
    IF \/ u.Scheme \notin {<<"h", "t", "t", "p">>, <<"h", "t", "t", "p", "s">>}
       \/ u.Host = <<>>
    THEN Response(TRUE, 0)
    ELSE answer

\* The loop over n.Attr of an anchor, were a probe to fail on a connection
\* error only.
probeHrefsErrOnly(attrs, baseURL, resp, st) ==
    LET RECURSIVE loop(_, _)
        loop(as, t) ==
            IF as = <<>> THEN t
            ELSE LET link == Parse(Head(as).Val)
                     base == Parse(baseURL)
                     resolvedLink == ResolveReference(base, link)
                     got == Get(resolvedLink, resp[t.sent + 1])
                 IN  loop(Tail(as),
                         IF Head(as).Key # "href" \/ link.err \/ base.err THEN t
                         ELSE [links |-> IF got.err
                                         THEN Append(t.links, String(resolvedLink))
                                         ELSE t.links,
                               sent |-> t.sent + 1])
    IN  loop(attrs, st)

RECURSIVE probeHrefs(_, _, _, _)
\* The loop over n.Attr of an anchor in checkInaccessibleLinks: st.links is
\* the list so far, st.sent the number of probes sent; resp[k] is the
\* network's answer to the k-th probe.
probeHrefs(attrs, baseURL, resp, st) ==
    IF attrs = <<>> THEN st
    ELSE LET link == Parse(Head(attrs).Val)
             base == Parse(baseURL)
             resolvedLink == ResolveReference(base, link)
             got == Get(resolvedLink, resp[st.sent + 1])
         IN  probeHrefs(Tail(attrs), baseURL, resp,
                 IF Head(attrs).Key # "href" \/ link.err \/ base.err THEN st
                 ELSE [links |-> IF got.err \/ (got.StatusCode >= 400 /\ got.StatusCode <= 599)
                                 THEN Append(st.links, String(resolvedLink))
                                 ELSE st.links,
                       sent |-> st.sent + 1])

RECURSIVE probeWalk(_, _, _, _, _)
\* The walker f of checkInaccessibleLinks.
probeWalk(doc, i, baseURL, resp, st) ==
    LET n == doc[i]
        cs == Children(doc, i)
        RECURSIVE each(_, _)
        each(k, t) == IF k > Len(cs) THEN t
                      ELSE each(k + 1, probeWalk(doc, cs[k], baseURL, resp, t))
    IN  each(1, IF n.Type = "ElementNode" /\ n.Data = "a"
                THEN probeHrefs(n.Attr, baseURL, resp, st)
                ELSE st)

checkInaccessibleLinks(doc, baseURL, resp) ==
    probeWalk(doc, 1, baseURL, resp, [links |-> <<>>, sent |-> 0]).links

VARIABLES
    analyses,       \* table analyses: id -> row (the domain is the set of rows)
    broken_links,   \* table broken_links, in insertion (auto-increment) order
    nextId,         \* AUTO_INCREMENT counter of analyses
    worker,         \* the worker loop: its position and the rows of its query
    procs,          \* the goroutines processAnalysis, by order of spawning
    reader,         \* the list-jobs handler: its position, rows left, response
    request,        \* the /api request in the router's handler chain
    app             \* the page in the browser: the state of AppContent

vars == <<analyses, broken_links, nextId, worker, procs, reader, request, app>>

----------------------------------------------------------------------------
\* Rows and values

\* The result columns of a freshly inserted row (schema defaults).
DefaultCols ==
    [html_version |-> NULL, title |-> NULL,
     h1_count |-> 0, h2_count |-> 0, h3_count |-> 0,
     h4_count |-> 0, h5_count |-> 0, h6_count |-> 0,
     internal_links |-> 0, external_links |-> 0, inaccessible_links |-> 0,
     has_login_form |-> NULL]

\* The page <title>Example</title>, one h1, one internal link, one external
\* link.
ExampleDoc ==
    << Node("DocumentNode", "", <<>>, 0),
       Node("DoctypeNode", <<"h", "t", "m", "l">>, <<>>, 1),
       Node("ElementNode", "html", <<>>, 1),
       Node("ElementNode", "head", <<>>, 3),
       Node("ElementNode", "title", <<>>, 4),
       Node("TextNode", "Example", <<>>, 5),
       Node("ElementNode", "body", <<>>, 3),
       Node("ElementNode", "h1", <<>>, 7),
       Node("ElementNode", "a",
            <<Attribute("href", <<"/", "a", "b", "o", "u", "t">>)>>, 7),
       Node("ElementNode", "a", <<Attribute("href", DeadLink)>>, 7) >>

\* A page with a login form and internal links only.
FixedDoc ==
    << Node("DocumentNode", "", <<>>, 0),
       Node("DoctypeNode", <<"h", "t", "m", "l">>, <<>>, 1),
       Node("ElementNode", "html", <<>>, 1),
       Node("ElementNode", "head", <<>>, 3),
       Node("ElementNode", "title", <<>>, 4),
       Node("TextNode", "Fixed", <<>>, 5),
       Node("ElementNode", "body", <<>>, 3),
       Node("ElementNode", "h1", <<>>, 7),
       Node("ElementNode", "h2", <<>>, 7),
       Node("ElementNode", "a",
            <<Attribute("href", <<"/", "a", "b", "o", "u", "t">>)>>, 7),
       Node("ElementNode", "form",
            <<Attribute("action", <<"/", "l", "o", "g", "i", "n">>)>>, 7),
       Node("ElementNode", "a",
            <<Attribute("href", <<"/", "l", "o", "g", "i", "n">>)>>, 11) >>

\* The pages a fetch of the target URL may return: the parsed document and
\* the answers of the network to the link probes, in the order of probing.
\* On the first the probe of the external link fails; on the second every
\* probe is answered 200.
ExamplePage ==
    [doc |-> ExampleDoc, resp |-> <<Response(FALSE, 200), Response(TRUE, 0)>>]
Pages ==
    { ExamplePage,
      [doc |-> FixedDoc, resp |-> <<Response(FALSE, 200), Response(FALSE, 200)>>] }

NoPage == [doc |-> <<>>, resp |-> <<>>]
NoAnalysis == [fetched |-> FALSE]

\* The Analysis struct analyzeURL returns for a page: the walk, the version,
\* the link check.
\* analyzeURL, were it to leave out the link check.
analyzeURLNoLinkCheck(url, page) ==
    [f(page.doc, 1, NewAnalysis(url)) EXCEPT !.HTMLVersion = getHTMLVersion(page.doc)]

analyzeURL(url, page) ==
    LET analysis == f(page.doc, 1, NewAnalysis(url))
        links == checkInaccessibleLinks(page.doc, analysis.URL, page.resp)
    IN  [analysis EXCEPT !.HTMLVersion = getHTMLVersion(page.doc),
                         !.BrokenLinks = links,
                         !.InaccessibleLinks = Len(links)]

\* The columns the transaction's UPDATE sets from an Analysis.
ColsOf(a) ==
    [html_version |-> a.HTMLVersion, title |-> a.Title,
     h1_count |-> a.H1Count, h2_count |-> a.H2Count, h3_count |-> a.H3Count,
     h4_count |-> a.H4Count, h5_count |-> a.H5Count, h6_count |-> a.H6Count,
     internal_links |-> a.InternalLinks, external_links |-> a.ExternalLinks,
     inaccessible_links |-> a.InaccessibleLinks,
     has_login_form |-> a.HasLoginForm]

\* A goroutine: its position, its arguments, the page it fetched and the
\* Analysis it got, the index of the insert loop, whether its transaction
\* holds the row.
NoProc == [pc |-> "none", id |-> 0, url |-> <<>>, page |-> NoPage,
           analysis |-> NoAnalysis, i |-> 0, locked |-> FALSE]
Exited == [pc |-> "exit", id |-> 0, url |-> <<>>, page |-> NoPage,
           analysis |-> NoAnalysis, i |-> 0, locked |-> FALSE]

RECURSIVE Ascending(_)
\* The ids of S in ascending order.
Ascending(S) ==
    IF S = {} THEN <<>>
    ELSE LET m == CHOOSE x \in S : \A y \in S : x <= y
         IN  <<m>> \o Ascending(S \ {m})

RECURSIVE Descending(_)
\* The ids of S in descending order.
Descending(S) ==
    IF S = {} THEN <<>>
    ELSE LET m == CHOOSE x \in S : \A y \in S : x >= y
         IN  <<m>> \o Descending(S \ {m})

\* SELECT link FROM broken_links WHERE analysis_id = id
LinksOf(tbl, id) ==
    LET rows == SelectSeq(tbl, LAMBDA r : r.analysis_id = id)
    IN  [k \in 1..Len(rows) |-> rows[k].link]

\* UPDATE analyses SET status = s, without the WHERE.
UpdateStatusEvery(tbl, id, s) ==
    [j \in DOMAIN tbl |-> [tbl[j] EXCEPT !.status = s]]

\* UPDATE analyses SET status = s WHERE id = id
UpdateStatus(tbl, id, s) ==
    IF id \in DOMAIN tbl THEN [tbl EXCEPT ![id].status = s] ELSE tbl

\* The row id is locked by an open transaction that updated it.
Locked(id) ==
    \E r \in RunIds : /\ procs[r].pc \in {"insert", "commit"}
                      /\ procs[r].id = id
                      /\ procs[r].locked

----------------------------------------------------------------------------
\* The router: every /api route runs authMiddleware before its handler.

Routes == {"analyze", "rerun", "start", "stop", "list", "delete"}

\* No request is in the handler chain.
NoRequest == [pc |-> "none", route |-> "", Authorization |-> <<>>]

RECURSIVE Split(_)
\* strings.Split(s, " ")
Split(s) ==
    IF \E i \in DOMAIN s : s[i] = " "
    THEN LET i == CHOOSE i \in DOMAIN s : s[i] = " " /\ \A j \in 1..(i - 1) : s[j] # " "
         IN  <<SubSeq(s, 1, i - 1)>> \o Split(SubSeq(s, i + 1, Len(s)))
    ELSE <<s>>

\* What authMiddleware ends with for a header value ("" when the header is
\* absent): c.Next() or c.AbortWithStatusJSON(401).
authResult(authHeader) ==
    LET parts == Split(authHeader)
    IN  IF authHeader = <<>> THEN "aborted"
        ELSE IF Len(parts) # 2 \/ parts[1] # <<"B", "e", "a", "r", "e", "r">>
        THEN "aborted"
        ELSE IF parts[2] = <<>> THEN "aborted"
        ELSE "next"

\* A request for a route arrives and authMiddleware runs on it: the chain
\* goes on to the handler or the request is answered 401.
authMiddleware(route, authHeader) ==
    /\ request.pc \in {"none", "aborted"}
    /\ request' = [pc |-> authResult(authHeader), route |-> route,
                   Authorization |-> authHeader]
    /\ UNCHANGED <<app, analyses, broken_links, nextId, worker, procs, reader>>

----------------------------------------------------------------------------
\* The page in the browser (App.tsx).  A query of the list is kept per key
\* ["analyses", apiKey]: whether a request of it is on its way (sent, or
\* answered and not yet delivered), the header the request carries, the
\* answer, the data and the error of the last delivered answer.

\* The keys typed into "Enter API Key": none, the key of the README, a key
\* of two words.
TestKey == <<"t", "e", "s", "t", "1", "2", "3", "4">>
ApiKeys == { <<>>, TestKey, <<"m", "y", " ", "k", "e", "y">> }

\* The values of `data`: undefined (no answer has been delivered), the JSON
\* null, a JSON array of rows.
Undefined == [kind |-> "undefined", rows |-> <<>>]
JsonNull == [kind |-> "null", rows |-> <<>>]
Array(rows) == [kind |-> "array", rows |-> rows]

NoAnswer == [status |-> 0, data |-> Undefined]

\* A query no component has used.
NoQuery == [pc |-> "idle", Authorization |-> <<>>, answer |-> NoAnswer,
            data |-> Undefined, error |-> FALSE]

\* analyzeMutation before a submission.
NoMutation == [pc |-> "idle", url |-> <<>>, Authorization |-> <<>>, status |-> 0]

\* AppContent after its first render in a browser that has stored no key:
\* the useState initial values, the query cache of a new QueryClient.
AppContent ==
    [url |-> <<>>, apiKey |-> <<>>, isPolling |-> FALSE,
     queries |-> [k \in ApiKeys |-> NoQuery],
     analyzeMutation |-> NoMutation]

----------------------------------------------------------------------------
Init ==
    /\ analyses = <<>>
    /\ broken_links = <<>>
    /\ nextId = 1
    /\ worker = [pc |-> "query", rows |-> <<>>]
    /\ procs = [r \in RunIds |-> NoProc]
    /\ reader = [pc |-> "idle", rows |-> <<>>, out |-> <<>>]
    /\ request = NoRequest
    /\ app = AppContent

----------------------------------------------------------------------------
\* Request handlers.  Each runs one statement; a write to a row that an open
\* transaction has locked waits for it.  A handler whose request body does
\* not bind or whose statement fails answers with an error and changes
\* nothing (a stuttering step).  A handler answers its request: the handler
\* chain of the router is free again.

\* A submission that takes the lowest identity no row holds.
analyzeHandlerReusing(url) ==
    /\ nextId <= MaxJobs
    /\ LET id == CHOOSE i \in 1..nextId :
                     i \notin DOMAIN analyses /\ \A k \in 1..(i - 1) : k \in DOMAIN analyses
       IN  analyses' = analyses @@
               (id :> [url |-> url, status |-> "queued", cols |-> DefaultCols])
    /\ nextId' = nextId + 1
    /\ UNCHANGED <<broken_links, worker, procs, reader>>
    /\ request' = NoRequest

\* POST /api/analyze
analyzeHandler(url) ==
    /\ nextId <= MaxJobs
    /\ analyses' = analyses @@
           (nextId :> [url |-> url, status |-> "queued", cols |-> DefaultCols])
    /\ nextId' = nextId + 1
    /\ UNCHANGED <<broken_links, worker, procs, reader>>
    /\ request' = NoRequest

\* A re-run that throws the earlier result away at once.
rerunHandlerClearing(id) ==
    /\ ~Locked(id)
    /\ analyses' = IF id \in DOMAIN analyses
                   THEN [analyses EXCEPT ![id].status = "queued",
                                         ![id].cols = DefaultCols]
                   ELSE analyses
    /\ broken_links' = SelectSeq(broken_links, LAMBDA r : r.analysis_id # id)
    /\ UNCHANGED <<app, nextId, worker, procs, reader>>
    /\ request' = NoRequest

\* POST /api/analyze/rerun
rerunHandler(id) ==
    /\ ~Locked(id)
    /\ analyses' = UpdateStatus(analyses, id, "queued")
    /\ UNCHANGED <<app, broken_links, nextId, worker, procs, reader>>
    /\ request' = NoRequest

\* POST /api/analyze/start
startAnalysisHandler(id) ==
    /\ ~Locked(id)
    /\ analyses' = UpdateStatus(analyses, id, "queued")
    /\ UNCHANGED <<app, broken_links, nextId, worker, procs, reader>>
    /\ request' = NoRequest

\* POST /api/analyze/stop
stopAnalysisHandler(id) ==
    /\ ~Locked(id)
    /\ analyses' = UpdateStatus(analyses, id, "stopped")
    /\ UNCHANGED <<app, broken_links, nextId, worker, procs, reader>>
    /\ request' = NoRequest

\* A delete over a schema without ON DELETE CASCADE (and without the check
\* of the foreign key).
deleteAnalysisHandlerNoCascade(id) ==
    /\ ~Locked(id)
    /\ analyses' = [j \in DOMAIN analyses \ {id} |-> analyses[j]]
    /\ UNCHANGED <<app, broken_links, nextId, worker, procs, reader>>
    /\ request' = NoRequest

\* DELETE /api/analyses/:id (broken_links rows go with ON DELETE CASCADE)
deleteAnalysisHandler(id) ==
    /\ ~Locked(id)
    /\ analyses' = [j \in DOMAIN analyses \ {id} |-> analyses[j]]
    /\ broken_links' = SelectSeq(broken_links, LAMBDA r : r.analysis_id # id)
    /\ UNCHANGED <<app, nextId, worker, procs, reader>>
    /\ request' = NoRequest

----------------------------------------------------------------------------
\* The worker loop (startWorker)

\* A query that takes the stopped jobs too.
QueuedOrStoppedRows(tbl) ==
    LET ids == Ascending({j \in DOMAIN tbl :
                             tbl[j].status \in {"queued", "stopped"}})
    IN  [k \in 1..Len(ids) |-> [id |-> ids[k], url |-> tbl[ids[k]].url]]

\* SELECT id, url FROM analyses WHERE status = 'queued' (rows in primary-key
\* order)
\* The rows of the poll, were a job that has a live execution left out.
QueuedRowsUndispatched(tbl) ==
    LET ids == Ascending({j \in DOMAIN tbl :
                   /\ tbl[j].status = "queued"
                   /\ ~\E r \in DOMAIN procs :
                          procs[r].id = j /\ procs[r].pc \notin {"none", "exit"}})
    IN  [k \in 1..Len(ids) |-> [id |-> ids[k], url |-> tbl[ids[k]].url]]

QueuedRows(tbl) ==
    LET ids == Ascending({j \in DOMAIN tbl : tbl[j].status = "queued"})
    IN  [k \in 1..Len(ids) |-> [id |-> ids[k], url |-> tbl[ids[k]].url]]

\* The run the next goroutine gets (0 when the bound on runs is reached).
FreeRun ==
    IF \E r \in RunIds : procs[r].pc = "none"
    THEN CHOOSE r \in RunIds : /\ procs[r].pc = "none"
                               /\ \A q \in RunIds : procs[q].pc = "none" => r <= q
    ELSE 0

\* go processAnalysis(id, url)
Spawn(row) ==
    [NoProc EXCEPT !.pc = "start", !.id = row.id, !.url = row.url]

\* db.Query at the top of the loop; on an error the loop sleeps and goes on.
\* The poll, were a failed query to end the loop.
PollQueryReturning(ok) ==
    /\ worker.pc = "query"
    /\ worker' = IF ok THEN [pc |-> "rows", rows |-> QueuedRows(analyses)]
                 ELSE [pc |-> "returned", rows |-> <<>>]
    /\ UNCHANGED <<app, analyses, broken_links, nextId, procs, reader, request>>

PollQuery(ok) ==
    /\ worker.pc = "query"
    /\ worker' = IF ok THEN [pc |-> "rows", rows |-> QueuedRows(analyses)]
                 ELSE [pc |-> "sleep", rows |-> <<>>]
    /\ UNCHANGED <<app, analyses, broken_links, nextId, procs, reader, request>>

\* One turn of the row loop, were it to start no execution.
PollNextDropping(scanOk) ==
    /\ worker.pc = "rows"
    /\ worker.rows # <<>>
    /\ worker' = [worker EXCEPT !.rows = Tail(worker.rows)]
    /\ UNCHANGED <<app, analyses, broken_links, nextId, procs, reader, request>>

\* One turn of `for rows.Next()`: scan the row and spawn its execution; a row
\* whose scan fails is skipped.  (With MaxRuns executions spawned the loop
\* stays at the row.)
PollNext(scanOk) ==
    /\ worker.pc = "rows"
    /\ worker.rows # <<>>
    /\ worker' = [worker EXCEPT !.rows = Tail(worker.rows)]
    /\ IF scanOk
       THEN /\ FreeRun # 0
            /\ procs' = [procs EXCEPT ![FreeRun] = Spawn(Head(worker.rows))]
       ELSE procs' = procs
    /\ UNCHANGED <<app, analyses, broken_links, nextId, reader, request>>

\* rows.Close() after the last row; then time.Sleep.
PollClose ==
    /\ worker.pc = "rows"
    /\ worker.rows = <<>>
    /\ worker' = [pc |-> "sleep", rows |-> <<>>]
    /\ UNCHANGED <<app, analyses, broken_links, nextId, procs, reader, request>>

\* The sleep of 10 seconds ends; the loop starts over.
PollWake ==
    /\ worker.pc = "sleep"
    /\ worker' = [pc |-> "query", rows |-> <<>>]
    /\ UNCHANGED <<app, analyses, broken_links, nextId, procs, reader, request>>

----------------------------------------------------------------------------
\* One execution (processAnalysis), statement by statement

\* The status the first statement writes.
FirstStatus == "running"

\* UPDATE analyses SET status = 'running' WHERE id = ?; an error ends the run.
SetRunning(r, ok) ==
    /\ procs[r].pc = "start"
    /\ IF ok
       THEN /\ ~Locked(procs[r].id)
            /\ analyses' = UpdateStatus(analyses, procs[r].id, FirstStatus)
            /\ procs' = [procs EXCEPT ![r].pc = "check"]
       ELSE /\ analyses' = analyses
            /\ procs' = [procs EXCEPT ![r] = Exited]
    /\ UNCHANGED <<app, broken_links, nextId, worker, reader, request>>

\* What `SELECT status ... .Scan(&status)` leaves in status: the row's status,
\* or the empty string when the query fails or finds no row (the error is
\* not looked at).
ScannedStatus(tbl, id, ok) ==
    IF ok /\ id \in DOMAIN tbl THEN tbl[id].status ELSE ""

\* The stop check: return when the status read is 'stopped', else call
\* analyzeURL (the fetch is issued).
CheckStopped(r, ok) ==
    /\ procs[r].pc = "check"
    /\ procs' = IF ScannedStatus(analyses, procs[r].id, ok) = "stopped"
                THEN [procs EXCEPT ![r] = Exited]
                ELSE [procs EXCEPT ![r].pc = "analyze"]
    /\ UNCHANGED <<app, analyses, broken_links, nextId, worker, reader, request>>

\* The status written when analyzeURL returns an error.
FailureStatus == "error"

\* A failure branch that also resets the result columns.
AnalyzeFailClearing(r, ok) ==
    /\ procs[r].pc = "analyze"
    /\ IF ok /\ procs[r].id \in DOMAIN analyses
       THEN /\ ~Locked(procs[r].id)
            /\ analyses' = [analyses EXCEPT
                   ![procs[r].id].status = "error",
                   ![procs[r].id].cols = DefaultCols]
       ELSE analyses' = analyses
    /\ procs' = [procs EXCEPT ![r] = Exited]
    /\ UNCHANGED <<app, broken_links, nextId, worker, reader, request>>

\* analyzeURL fails (client.Get or html.Parse errors): the status is set to
\* 'error' and the run ends; an error of that UPDATE is only logged.
AnalyzeFail(r, ok) ==
    /\ procs[r].pc = "analyze"
    /\ IF ok
       THEN /\ ~Locked(procs[r].id)
            /\ analyses' = UpdateStatus(analyses, procs[r].id, FailureStatus)
       ELSE analyses' = analyses
    /\ procs' = [procs EXCEPT ![r] = Exited]
    /\ UNCHANGED <<app, broken_links, nextId, worker, reader, request>>

\* analyzeURL returns the analysis of the page it fetched.
AnalyzeOk(r, page) ==
    /\ procs[r].pc = "analyze"
    /\ procs' = [procs EXCEPT ![r].pc = "begin",
                              ![r].page = page,
                              ![r].analysis = analyzeURL(procs[r].url, page)]
    /\ UNCHANGED <<app, analyses, broken_links, nextId, worker, reader, request>>

\* db.Begin()
TxBegin(r, ok) ==
    /\ procs[r].pc = "begin"
    /\ procs' = IF ok THEN [procs EXCEPT ![r].pc = "update"]
                ELSE [procs EXCEPT ![r] = Exited]
    /\ UNCHANGED <<app, analyses, broken_links, nextId, worker, reader, request>>

\* tx.Exec(UPDATE analyses SET <result columns>, status = 'done'): the row is
\* locked, the write waits in the transaction.  On an error: rollback.
TxUpdate(r, ok) ==
    /\ procs[r].pc = "update"
    /\ IF ok
       THEN /\ ~Locked(procs[r].id)
            /\ procs' = [procs EXCEPT
                   ![r].pc = IF procs[r].analysis.BrokenLinks = <<>>
                             THEN "commit" ELSE "insert",
                   ![r].i = 1,
                   ![r].locked = procs[r].id \in DOMAIN analyses]
       ELSE procs' = [procs EXCEPT ![r] = Exited]
    /\ UNCHANGED <<app, analyses, broken_links, nextId, worker, reader, request>>

\* An insert run on db instead of tx: the row is stored at once.
TxInsertDirect(r, ok) ==
    /\ procs[r].pc = "insert"
    /\ LET p == procs[r]
           n == Len(p.analysis.BrokenLinks)
       IN  IF ok /\ p.id \in DOMAIN analyses
           THEN /\ procs' = [procs EXCEPT
                       ![r].pc = IF p.i = n THEN "commit" ELSE "insert",
                       ![r].i = p.i + 1]
                /\ broken_links' = Append(broken_links,
                       [analysis_id |-> p.id, link |-> p.analysis.BrokenLinks[p.i]])
           ELSE /\ procs' = [procs EXCEPT ![r] = Exited]
                /\ broken_links' = broken_links
    /\ UNCHANGED <<app, analyses, nextId, worker, reader, request>>

\* An insert into a table without the foreign key: it succeeds whether or
\* not the analyses row exists.
TxInsertNoForeignKey(r, ok) ==
    /\ procs[r].pc = "insert"
    /\ LET p == procs[r]
           n == Len(p.analysis.BrokenLinks)
       IN  IF ok
           THEN procs' = [procs EXCEPT
                    ![r].pc = IF p.i = n THEN "commit" ELSE "insert",
                    ![r].i = p.i + 1]
           ELSE procs' = [procs EXCEPT ![r] = Exited]
    /\ UNCHANGED <<app, analyses, broken_links, nextId, worker, reader, request>>

\* One turn of the loop over analysis.BrokenLinks: the inserted row waits in
\* the transaction.  The insert fails when the statement errors or when the
\* foreign key finds no analyses row: rollback.
TxInsert(r, ok) ==
    /\ procs[r].pc = "insert"
    /\ LET p == procs[r]
           n == Len(p.analysis.BrokenLinks)
       IN  IF ok /\ p.id \in DOMAIN analyses
           THEN procs' = [procs EXCEPT
                    ![r].pc = IF p.i = n THEN "commit" ELSE "insert",
                    ![r].i = p.i + 1]
           ELSE procs' = [procs EXCEPT ![r] = Exited]
    /\ UNCHANGED <<app, analyses, broken_links, nextId, worker, reader, request>>

\* A commit whose UPDATE sets the status alone.
CommittedStatusOnly(tbl, p) ==
    IF p.locked THEN [tbl EXCEPT ![p.id].status = "done"] ELSE tbl

\* The table analyses after the commit of run r's UPDATE.
CommittedAnalyses(tbl, p) ==
    IF p.locked
    THEN [tbl EXCEPT ![p.id].cols = ColsOf(p.analysis), ![p.id].status = "done"]
    ELSE tbl

\* The table broken_links after the commit of run r's inserts (the links
\* inserted so far, p.i - 1 of them).
CommittedLinks(tbl, p) ==
    tbl \o [k \in 1..(p.i - 1) |->
               [analysis_id |-> p.id, link |-> p.analysis.BrokenLinks[k]]]

\* tx.Commit(): the buffered writes are applied together; on an error
\* nothing is applied.
TxCommit(r, ok) ==
    /\ procs[r].pc = "commit"
    /\ IF ok
       THEN /\ analyses' = CommittedAnalyses(analyses, procs[r])
            /\ broken_links' = CommittedLinks(broken_links, procs[r])
       ELSE UNCHANGED <<analyses, broken_links>>
    /\ procs' = [procs EXCEPT ![r] = Exited]
    /\ UNCHANGED <<app, nextId, worker, reader, request>>

----------------------------------------------------------------------------
\* The list-jobs handler (getAnalysesHandler): one query for the rows, then
\* one query per row for its broken links, outside any transaction.

\* SELECT ... FROM analyses ORDER BY created_at DESC
ListedRows(tbl) ==
    LET ids == Descending(DOMAIN tbl)
    IN  [k \in 1..Len(ids) |->
            [id |-> ids[k], status |-> tbl[ids[k]].status, cols |-> tbl[ids[k]].cols]]

ListQuery ==
    /\ reader.pc = "idle"
    /\ reader' = [pc |-> "links", rows |-> ListedRows(analyses), out |-> <<>>]
    /\ UNCHANGED <<app, analyses, broken_links, nextId, worker, procs>>
    /\ request' = NoRequest

\* One turn of `for rows.Next()`: the row's broken links are queried and the
\* row is appended to the response; when a scan or the query fails the
\* handler answers 500 and returns.
ListLinks(ok) ==
    /\ reader.pc = "links"
    /\ reader.rows # <<>>
    /\ LET row == Head(reader.rows)
       IN  reader' = IF ok
                     THEN [reader EXCEPT
                              !.rows = Tail(reader.rows),
                              !.out = Append(reader.out,
                                  [id |-> row.id, status |-> row.status,
                                   cols |-> row.cols,
                                   broken_links |-> LinksOf(broken_links, row.id)])]
                     ELSE [pc |-> "idle", rows |-> <<>>, out |-> <<>>]
    /\ UNCHANGED <<app, analyses, broken_links, nextId, worker, procs, request>>

\* c.JSON(http.StatusOK, analyses): reader.out is the response.
ListReply ==
    /\ reader.pc = "links"
    /\ reader.rows = <<>>
    /\ reader' = [reader EXCEPT !.pc = "reply"]
    /\ UNCHANGED <<app, analyses, broken_links, nextId, worker, procs, request>>

\* The handler returns; the next request may come.
ListReturn ==
    /\ reader.pc = "reply"
    /\ reader' = [pc |-> "idle", rows |-> <<>>, out |-> <<>>]
    /\ UNCHANGED <<app, analyses, broken_links, nextId, worker, procs, request>>

----------------------------------------------------------------------------
\* The requests that write, the worker loop and the executions.
Next ==
    \/ \E url \in Urls : analyzeHandler(url) /\ UNCHANGED app
    \/ \E id \in JobIds : rerunHandler(id)
    \/ \E id \in JobIds : startAnalysisHandler(id)
    \/ \E id \in JobIds : stopAnalysisHandler(id)
    \/ \E id \in JobIds : deleteAnalysisHandler(id)
    \/ \E ok \in BOOLEAN : PollQuery(ok)
    \/ \E ok \in BOOLEAN : PollNext(ok)
    \/ PollClose
    \/ PollWake
    \/ \E r \in RunIds, ok \in BOOLEAN : SetRunning(r, ok)
    \/ \E r \in RunIds, ok \in BOOLEAN : CheckStopped(r, ok)
    \/ \E r \in RunIds, ok \in BOOLEAN : AnalyzeFail(r, ok)
    \/ \E r \in RunIds, page \in Pages : AnalyzeOk(r, page)
    \/ \E r \in RunIds, ok \in BOOLEAN : TxBegin(r, ok)
    \/ \E r \in RunIds, ok \in BOOLEAN : TxUpdate(r, ok)
    \/ \E r \in RunIds, ok \in BOOLEAN : TxInsert(r, ok)
    \/ \E r \in RunIds, ok \in BOOLEAN : TxCommit(r, ok)

Spec == Init /\ [][Next]_vars

\* The same with list-jobs requests served alongside, for a store in which
\* the ids below MaxJobs are used up (their jobs were submitted and deleted):
\* one job is left to submit.
InitList ==
    /\ analyses = <<>>
    /\ broken_links = <<>>
    /\ nextId = MaxJobs
    /\ worker = [pc |-> "query", rows |-> <<>>]
    /\ procs = [r \in RunIds |-> NoProc]
    /\ reader = [pc |-> "idle", rows |-> <<>>, out |-> <<>>]
    /\ request = NoRequest
    /\ app = AppContent

NextList ==
    \/ Next
    \/ ListQuery
    \/ \E ok \in BOOLEAN : ListLinks(ok)
    \/ ListReply
    \/ ListReturn

SpecList == InitList /\ [][NextList]_vars

----------------------------------------------------------------------------
\* Documents: every tree of at most MaxNodes nodes under the root whose
\* nodes are taken from a set of kinds (a kind is a node without its place).

Kind(type, data, attr) == [Type |-> type, Data |-> data, Attr |-> attr]
Element(data, attr) == Kind("ElementNode", data, attr)

\* The ancestors of node m and m itself, under the parents p.
AncestorsOrSelf(p, m) ==
    LET RECURSIVE up(_)
        up(k) == IF k <= 1 THEN {1} ELSE {k} \cup up(p[k])
    IN  up(m)

\* The parents of n nodes after the root (node 1) listed in pre-order: the
\* parent of a node is the node before it or one of that node's ancestors.
Shapes(n) ==
    { p \in [2..(n + 1) -> 1..n] :
        \A k \in 2..(n + 1) :
            /\ p[k] < k
            /\ k > 2 => p[k] \in AncestorsOrSelf(p, k - 1) }

\* The trees of n nodes of the kinds given; only the root and elements have
\* children.
TreesOf(kinds, n) ==
    { d \in { [k \in 1..(n + 1) |->
                 IF k = 1 THEN Node("DocumentNode", "", <<>>, 0)
                 ELSE Node(c[k].Type, c[k].Data, c[k].Attr, p[k])] :
              p \in Shapes(n), c \in [2..(n + 1) -> kinds] } :
        \A k \in 2..(n + 1) :
            d[d[k].parent].Type \in {"DocumentNode", "ElementNode"} }

Trees(kinds) == UNION { TreesOf(kinds, n) : n \in 0..MaxNodes }

\* The number of href attributes in a document: no more probes are sent.
HrefCount(doc) ==
    Cardinality({ <<i, k>> \in (DOMAIN doc) \X (1..MaxAttrs) :
                     k <= Len(doc[i].Attr) /\ doc[i].Attr[k].Key = "href" })

\* The page of a document on which every probe is answered 200.
AllUp(doc) ==
    [doc |-> doc, resp |-> [k \in 1..HrefCount(doc) |-> Response(FALSE, 200)]]

Href(val) == Attribute("href", val)
About == <<"/", "a", "b", "o", "u", "t">>

\* Headings of every level, between anchors and forms.
HeadingKinds ==
    { Element("h1", <<>>), Element("h2", <<>>), Element("h3", <<>>),
      Element("h4", <<>>), Element("h5", <<>>), Element("h6", <<>>),
      Element("a", <<Href(About)>>), Element("form", <<>>) }

\* Anchors without href, with an href that is relative, absolute, relative
\* with the letters http in front, absolute in capitals, and with two hrefs.
AnchorKinds ==
    { Element("a", <<>>),
      Element("a", <<Attribute("name", About)>>),
      Element("a", <<Href(About)>>),
      Element("a", <<Href(DeadLink)>>),
      Element("a", <<Href(<<"h", "t", "t", "p", "h", "o", "n", "y">>)>>),
      Element("a", <<Href(<<"H", "T", "T", "P", ":", "/", "/", "x">>)>>),
      Element("a", <<Href(About), Href(DeadLink)>>),
      Element("div", <<Href(About)>>) }

\* Forms with and without an action that names a login, inputs with and
\* without the type password.
FormKinds ==
    { Element("form", <<>>),
      Element("form", <<Attribute("action", <<"/", "l", "o", "g", "i", "n">>)>>),
      Element("form", <<Attribute("action", <<"/", "s", "i", "g", "n", "i", "n">>)>>),
      Element("form", <<Attribute("action", <<"/", "s", "e", "a", "r", "c", "h">>),
                        Attribute("method", <<"p", "o", "s", "t">>)>>),
      Element("input", <<Attribute("type", <<"p", "a", "s", "s", "w", "o", "r", "d">>)>>),
      Element("input", <<Attribute("type", <<"t", "e", "x", "t">>)>>),
      Element("div", <<Attribute("type", <<"p", "a", "s", "s", "w", "o", "r", "d">>)>>),
      Element("div", <<>>) }

\* Doctype nodes with the declared values the classification tells apart,
\* and one it does not know.
DoctypeKinds ==
    { Kind("DoctypeNode", <<"h", "t", "m", "l">>, <<>>),
      Kind("DoctypeNode", <<"H", "T", "M", "L", " ", "5">>, <<>>),
      Kind("DoctypeNode", <<"x", "h", "t", "m", "l", " ", "1", ".", "1">>, <<>>),
      Kind("DoctypeNode", <<"X", "H", "T", "M", "L", " ", "1", ".", "0">>, <<>>),
      Kind("DoctypeNode", <<"h", "t", "m", "l", " ", "4", ".", "0", "1">>, <<>>),
      Kind("DoctypeNode", <<"h", "t", "m", "l", " ", "4", ".", "0">>, <<>>),
      Kind("DoctypeNode", <<"s", "v", "g">>, <<>>),
      Element("html", <<>>) }


\* One run has passed its stop check and calls analyzeURL: the state after
\* a submission, a poll and the first two statements of processAnalysis.
InitDoc ==
    /\ analyses = (1 :> [url |-> ExampleCom, status |-> "running",
                         cols |-> DefaultCols])
    /\ broken_links = <<>>
    /\ nextId = 2
    /\ worker = [pc |-> "sleep", rows |-> <<>>]
    /\ procs = [r \in RunIds |->
                   IF r = 1 THEN [Spawn([id |-> 1, url |-> ExampleCom])
                                     EXCEPT !.pc = "analyze"]
                   ELSE NoProc]
    /\ reader = [pc |-> "idle", rows |-> <<>>, out |-> <<>>]
    /\ request = NoRequest
    /\ app = AppContent

\* Titles with their text, inside and outside a body.
TitleKinds ==
    { Element("title", <<>>),
      Kind("TextNode", "A", <<>>),
      Kind("TextNode", "B", <<>>),
      Element("body", <<>>) }

\* analyzeURL on each of the pages.
NextDoc ==
    \/ \E r \in RunIds :
           procs[r].pc = "analyze" /\ \E d \in Trees(HeadingKinds) : AnalyzeOk(r, AllUp(d))
    \/ \E r \in RunIds :
           procs[r].pc = "analyze" /\ \E d \in Trees(AnchorKinds) : AnalyzeOk(r, AllUp(d))
    \/ \E r \in RunIds :
           procs[r].pc = "analyze" /\ \E d \in Trees(FormKinds) : AnalyzeOk(r, AllUp(d))
    \/ \E r \in RunIds :
           procs[r].pc = "analyze" /\ \E d \in Trees(DoctypeKinds) : AnalyzeOk(r, AllUp(d))
    \/ \E r \in RunIds :
           /\ procs[r].pc = "analyze"
           /\ \E n \in 0..MaxTitleNodes :
                  \E d \in TreesOf(TitleKinds, n) : AnalyzeOk(r, AllUp(d))

SpecDoc == InitDoc /\ [][NextDoc]_vars

\* The Authorization headers a client may send: none, with the key test1234
\* of the README, with an empty key, with other schemes and spellings, with
\* a key of two words.
Bearer == <<"B", "e", "a", "r", "e", "r">>
Headers ==
    { <<>>,
      Bearer \o <<" ", "t", "e", "s", "t", "1", "2", "3", "4">>,
      Bearer \o <<" ", "k">>,
      Bearer \o <<" ">>,
      Bearer,
      <<"B", "a", "s", "i", "c", " ", "k">>,
      <<"b", "e", "a", "r", "e", "r", " ", "k">>,
      <<"k">>,
      Bearer \o <<" ", "m", "y", " ", "k", "e", "y">> }

\* The router alone, over a store that holds one job with its result: every
\* request goes through authMiddleware, a handler runs when the chain
\* reaches it.
InitAuth ==
    /\ analyses = (1 :> [url |-> ExampleCom, status |-> "done",
                         cols |-> ColsOf(analyzeURL(ExampleCom, ExamplePage))])
    /\ broken_links = <<[analysis_id |-> 1, link |-> DeadLink]>>
    /\ nextId = 2
    /\ worker = [pc |-> "query", rows |-> <<>>]
    /\ procs = [r \in RunIds |-> NoProc]
    /\ reader = [pc |-> "idle", rows |-> <<>>, out |-> <<>>]
    /\ request = NoRequest
    /\ app = AppContent

NextAuth ==
    \/ \E route \in Routes, authHeader \in Headers : authMiddleware(route, authHeader)
    \/ /\ request.pc = "next" /\ request.route = "analyze"
       /\ \E url \in Urls : analyzeHandler(url) /\ UNCHANGED app
    \/ /\ request.pc = "next" /\ request.route = "rerun"
       /\ \E id \in JobIds : rerunHandler(id)
    \/ /\ request.pc = "next" /\ request.route = "start"
       /\ \E id \in JobIds : startAnalysisHandler(id)
    \/ /\ request.pc = "next" /\ request.route = "stop"
       /\ \E id \in JobIds : stopAnalysisHandler(id)
    \/ /\ request.pc = "next" /\ request.route = "delete"
       /\ \E id \in JobIds : deleteAnalysisHandler(id)
    \/ /\ request.pc = "next" /\ request.route = "list"
       /\ ListQuery
    \/ \E ok \in BOOLEAN : ListLinks(ok)
    \/ ListReply
    \/ ListReturn

SpecAuth == InitAuth /\ [][NextAuth]_vars

----------------------------------------------------------------------------
\* What the claims speak of

Terminal == {"done", "error", "stopped"}

\* The row carries result fields: a commit wrote them (html_version is never
\* NULL in an Analysis).
HasResult(row) == row.cols.html_version # NULL

\* The job carries a result: result fields or broken-link records.
CarriesResult(j) ==
    HasResult(analyses[j]) \/ LinksOf(broken_links, j) # <<>>

\* Run r's transaction is committed by this step, for a row it had updated.
Commits(r) ==
    /\ procs[r].pc = "commit"
    /\ procs'[r].pc = "exit"
    /\ procs[r].locked
    /\ procs[r].id \in DOMAIN analyses'
    /\ analyses'[procs[r].id].status = "done"
    /\ analyses'[procs[r].id].cols = ColsOf(procs[r].analysis)
    /\ \/ analyses' # analyses
       \/ broken_links' # broken_links
       \/ procs[r].analysis.BrokenLinks = <<>>

----------------------------------------------------------------------------
\* C1 (as stated): in every reachable state every job carries an analysis
\* result (result fields or broken-link records) if and only if its state
\* is done.
C1_ResultIffDone ==
    \A j \in DOMAIN analyses : CarriesResult(j) <=> analyses[j].status = "done"

\* C1 (amended): a job whose state is done carries result fields, and
\* broken-link records exist only for a job that carries result fields; a
\* job that is not done may carry the result of an earlier run.
C1_DoneHasResult ==
    \A j \in DOMAIN analyses :
        /\ analyses[j].status = "done" => HasResult(analyses[j])
        /\ LinksOf(broken_links, j) # <<>> => HasResult(analyses[j])

\* A done job with its result fields and a broken-link record.
C1_Witness ==
    \E j \in DOMAIN analyses :
        /\ analyses[j].status = "done"
        /\ HasResult(analyses[j])
        /\ LinksOf(broken_links, j) # <<>>

\* C2: in every reachable state, for every job, the number of broken-link
\* records that reference the job equals its stored inaccessible_links.
C2_LinksMatchCount ==
    \A j \in DOMAIN analyses :
        Len(LinksOf(broken_links, j)) = analyses[j].cols.inaccessible_links

\* C3: when a job that carries the result of an earlier run is committed
\* again, its broken-link list afterwards is exactly the list of the new run.
C3_RerunReplacesLinks ==
    [][\A r \in RunIds :
          (Commits(r) /\ HasResult(analyses[procs[r].id]))
          => LinksOf(broken_links', procs[r].id) = procs[r].analysis.BrokenLinks
      ]_vars

\* What a reader sees of one job holds together: broken-link records only
\* with the result fields of a commit, state done only with result fields,
\* and a stored count of broken links only with records.
Whole(status, cols, links) ==
    /\ links # <<>> => cols.html_version # NULL
    /\ status = "done" => cols.html_version # NULL
    /\ cols.inaccessible_links > 0 => links # <<>>

\* C4: the commit is atomic with the transition to done for every reader:
\* neither the store (read by the poll and the executions) nor a list-jobs
\* response shows a job with the writes of a commit in part.
C4_NoPartialCommitSeen ==
    /\ \A j \in DOMAIN analyses :
           Whole(analyses[j].status, analyses[j].cols, LinksOf(broken_links, j))
    /\ \A k \in 1..Len(reader.out) :
           Whole(reader.out[k].status, reader.out[k].cols,
                 reader.out[k].broken_links)

\* C5: a run whose job is stopped when the run is before its stop check
\* (before or after its write of running) takes no step that calls the page
\* analyzer, and its steps leave the job stopped.
C5_StopBeforeCheckAborts ==
    [][\A r \in RunIds :
          ( /\ procs[r].pc \in {"start", "check"}
            /\ procs[r].id \in DOMAIN analyses
            /\ analyses[procs[r].id].status = "stopped"
            /\ procs'[r] # procs[r] )
          => /\ procs'[r].pc # "analyze"
             /\ procs[r].id \in DOMAIN analyses'
             /\ analyses'[procs[r].id].status = "stopped"
      ]_vars

\* C6: a job that is stopped stays stopped until a re-run or start request
\* sets it to queued or the job is deleted: no execution changes its state.
C6_StoppedIsTerminal ==
    [][\A j \in DOMAIN analyses :
          (analyses[j].status = "stopped" /\ j \in DOMAIN analyses')
          => analyses'[j].status \in {"stopped", "queued"}
      ]_vars

\* The poll's query returns exactly the jobs that are queued, each once.
PollObservesQueued ==
    (worker.pc = "query" /\ worker'.pc = "rows")
    => /\ {worker'.rows[k].id : k \in 1..Len(worker'.rows)}
              = {j \in DOMAIN analyses : analyses[j].status = "queued"}
       /\ \A k, l \in 1..Len(worker'.rows) :
              worker'.rows[k].id = worker'.rows[l].id => k = l

\* An execution is started only by the poll, for the row it is at, and one
\* at a time.
SpawnedFromPoll ==
    \A r \in RunIds :
        (procs[r].pc = "none" /\ procs'[r].pc # "none")
        => /\ worker.pc = "rows"
           /\ worker.rows # <<>>
           /\ procs'[r] = Spawn(Head(worker.rows))
           /\ worker'.rows = Tail(worker.rows)
           /\ \A q \in RunIds \ {r} : procs'[q] = procs[q]

\* A job is set to running only by an execution started for it.
RunningByOwnRun ==
    \A j \in DOMAIN analyses :
        ( /\ j \in DOMAIN analyses'
          /\ analyses[j].status # "running"
          /\ analyses'[j].status = "running" )
        => \E r \in RunIds : procs[r].pc = "start" /\ procs[r].id = j

\* Every row the poll passes starts an execution.
EachRowSpawns ==
    (worker.pc = "rows" /\ worker'.pc = "rows" /\ worker'.rows # worker.rows)
    => \E r \in RunIds : procs[r].pc = "none" /\ procs'[r].pc = "start"

\* C7 (as stated): a poll starts an execution only for a job its query
\* observed in queued, and exactly one for each job it observed.
C7_OnePerObserved ==
    [][PollObservesQueued /\ SpawnedFromPoll /\ RunningByOwnRun /\ EachRowSpawns]_vars

\* C7 (amended): a poll starts an execution only for a job its query
\* observed in queued, and at most one for each job it observed (a row whose
\* scan fails is skipped); a job it observed in another state is not
\* dispatched and not set to running by it.
C7_OnlyObservedQueued ==
    [][PollObservesQueued /\ SpawnedFromPoll /\ RunningByOwnRun]_vars

\* A poll has passed all its rows, started an execution for a queued job
\* and none for a stopped one.
C7_Witness ==
    /\ worker.pc = "rows"
    /\ worker.rows = <<>>
    /\ \E j, k \in DOMAIN analyses :
           /\ analyses[j].status = "stopped"
           /\ \A r \in RunIds : procs[r].id # j
           /\ analyses[k].status = "queued"
           /\ \E r \in RunIds : procs[r].pc = "start" /\ procs[r].id = k

\* C8: an execution sets running only from queued, and done or error only
\* from running.
C8_ExecutionTransitions ==
    [][\A r \in RunIds :
          procs[r].id \in DOMAIN analyses
          => /\ (procs[r].pc = "start" /\ procs'[r].pc = "check")
                    => analyses[procs[r].id].status = "queued"
             /\ ( /\ procs[r].pc \in {"analyze", "commit"}
                  /\ procs'[r].pc = "exit"
                  /\ analyses' # analyses
                  /\ analyses'[procs[r].id].status \in {"done", "error"} )
                    => analyses[procs[r].id].status = "running"
      ]_vars

\* C9: a step that takes a job from a terminal state to queued (a re-run or
\* start request) changes nothing but that job's state.
C9_RerunOnlyRequeues ==
    [][\A j \in DOMAIN analyses :
          ( /\ analyses[j].status \in Terminal
            /\ j \in DOMAIN analyses'
            /\ analyses'[j].status = "queued" )
          => /\ analyses' = [analyses EXCEPT ![j].status = "queued"]
             /\ UNCHANGED <<broken_links, nextId, worker, procs, reader>>
      ]_vars

\* A job that was re-run is queued and still carries the earlier result,
\* next to another job that carries its own.
C9_Witness ==
    \E j, k \in DOMAIN analyses :
        /\ j # k
        /\ analyses[j].status = "queued"
        /\ HasResult(analyses[j])
        /\ LinksOf(broken_links, j) # <<>>
        /\ analyses[k].status = "done"

\* C10 (as stated): when the page analyzer fails the execution ends at once
\* (no retry), writes no result field and no broken-link record, and the
\* job is in state error.
C10_FailureSetsError ==
    [][\A r \in RunIds :
          (procs[r].pc = "analyze" /\ procs'[r].pc = "exit")
          => /\ broken_links' = broken_links
             /\ DOMAIN analyses' = DOMAIN analyses
             /\ \A j \in DOMAIN analyses : analyses'[j].cols = analyses[j].cols
             /\ procs[r].id \in DOMAIN analyses
                    => analyses'[procs[r].id].status = "error"
      ]_vars

\* C10 (amended): when the page analyzer fails the execution ends at once
\* (no retry), writes no result field and no broken-link record, and sets
\* the job, if it still exists, to error; when that write fails nothing is
\* written and the job keeps the state it had.
C10_FailureSetsErrorOrNothing ==
    [][\A r \in RunIds :
          (procs[r].pc = "analyze" /\ procs'[r].pc = "exit")
          => /\ broken_links' = broken_links
             /\ \/ analyses' = analyses
                \/ /\ procs[r].id \in DOMAIN analyses
                   /\ analyses' = [analyses EXCEPT ![procs[r].id].status = "error"]
      ]_vars

\* A job in error without a result, its execution ended.
C10_Witness ==
    \E j \in DOMAIN analyses :
        /\ analyses[j].status = "error"
        /\ ~CarriesResult(j)
        /\ \A r \in RunIds : procs[r].pc \in {"none", "exit"}

----------------------------------------------------------------------------
\* The statements of the result commit (db.Begin to tx.Commit).
CommitPhase == {"begin", "update", "insert", "commit"}

\* Run r's step stores its whole result: the job is done with the columns
\* of r's Analysis and r's broken links are appended.
StoresWhole(r) ==
    LET p == procs[r]
    IN  /\ p.pc = "commit"
        /\ p.id \in DOMAIN analyses /\ p.id \in DOMAIN analyses'
        /\ analyses' = [analyses EXCEPT ![p.id].status = "done",
                                        ![p.id].cols = ColsOf(p.analysis)]
        /\ LinksOf(broken_links', p.id)
               = LinksOf(broken_links, p.id) \o p.analysis.BrokenLinks
        /\ \A j \in DOMAIN analyses \ {p.id} :
               LinksOf(broken_links', j) = LinksOf(broken_links, j)

\* C11: a step of the result commit (begin, update, an insert, commit)
\* either stores the whole result (the commit succeeds) or leaves the store
\* as it was: when a statement fails the run ends and the job's state,
\* result fields and broken-link records are what they were, so that a job
\* that was running stays running.
C11_FailedCommitWritesNothing ==
    [][\A r \in RunIds :
          (procs[r].pc \in CommitPhase /\ procs'[r] # procs[r])
          => \/ UNCHANGED <<analyses, broken_links>>
             \/ StoresWhole(r)
      ]_vars

\* A run stands at tx.Commit with its UPDATE and an INSERT in the
\* transaction while the store shows the job running, without result fields
\* and without broken-link records.
C11_Witness ==
    \E r \in RunIds :
        /\ procs[r].pc = "commit"
        /\ procs[r].locked
        /\ procs[r].i > 1
        /\ analyses[procs[r].id].status = "running"
        /\ ~CarriesResult(procs[r].id)

\* C13: a step that creates a job (submit-job) creates exactly one, under an
\* identity no job has had before, in state queued and without result; it
\* changes no other job and no broken-link record, runs no analysis (the
\* worker and the executions are where they were) and no execution exists
\* for the new job: only a later poll dispatches it.
C13_SubmitOnlyQueues ==
    [][ DOMAIN analyses' \ DOMAIN analyses # {}
        => \E j \in DOMAIN analyses' \ DOMAIN analyses :
              /\ DOMAIN analyses' = DOMAIN analyses \cup {j}
              /\ j = nextId /\ nextId' > j
              /\ \A k \in DOMAIN analyses : k < j /\ analyses'[k] = analyses[k]
              /\ analyses'[j].status = "queued"
              /\ analyses'[j].cols = DefaultCols
              /\ broken_links' = broken_links
              /\ \A k \in DOMAIN broken_links : broken_links[k].analysis_id # j
              /\ UNCHANGED <<worker, procs>>
              /\ \A r \in RunIds : procs[r].id # j
              /\ \A k \in DOMAIN worker.rows : worker.rows[k].id # j
      ]_vars

\* The job submitted last stands queued without result, not dispatched to
\* any execution, next to a job that is done with its result and
\* broken-link record.
C13_Witness ==
    \E j, k \in DOMAIN analyses :
        /\ j < k /\ k = nextId - 1
        /\ analyses[k].status = "queued"
        /\ analyses[k].cols = DefaultCols
        /\ \A r \in RunIds : procs[r].id # k
        /\ analyses[j].status = "done"
        /\ LinksOf(broken_links, j) # <<>>

\* C14: a step that removes a job (delete-job) removes exactly one job
\* record and every broken-link record that references it, and changes no
\* other job and no other broken-link record.
C14_DeleteCascades ==
    [][ DOMAIN analyses \ DOMAIN analyses' # {}
        => \E j \in DOMAIN analyses \ DOMAIN analyses' :
              /\ DOMAIN analyses' = DOMAIN analyses \ {j}
              /\ \A k \in DOMAIN analyses' : analyses'[k] = analyses[k]
              /\ \A k \in DOMAIN broken_links' : broken_links'[k].analysis_id # j
              /\ \A k \in JobIds \ {j} :
                     LinksOf(broken_links', k) = LinksOf(broken_links, k)
              /\ Len(broken_links')
                     = Len(broken_links) - Len(LinksOf(broken_links, j))
      ]_vars

\* A job was deleted (its identity is used up, no broken-link record names
\* it) while another job keeps its result and its broken-link records.
C14_Witness ==
    \E j \in JobIds : \E k \in DOMAIN analyses :
        /\ j < nextId /\ j \notin DOMAIN analyses
        /\ \A n \in DOMAIN broken_links : broken_links[n].analysis_id # j
        /\ analyses[k].status = "done"
        /\ LinksOf(broken_links, k) # <<>>

\* The header has the form 'Bearer <non-empty token>'.
BearerForm(authHeader) ==
    /\ HasPrefix(authHeader, Bearer \o <<" ">>)
    /\ Len(authHeader) > Len(Bearer) + 1

\* C20: a request to an /api route is let through to its handler if and
\* only if its Authorization header has the form 'Bearer <non-empty token>'
\* (any non-empty token is accepted); a request without such a header is
\* answered 401 before its handler runs, so the jobs and broken-link records
\* change (and the list is read) only under a request that carries one.
C20_OnlyBearerPasses ==
    [][ /\ (request' # request /\ request'.pc \in {"next", "aborted"})
            => (request'.pc = "next" <=> BearerForm(request'.Authorization))
        /\ ( \/ analyses' # analyses
             \/ broken_links' # broken_links
             \/ nextId' # nextId
             \/ (reader.pc = "idle" /\ reader'.pc # "idle") )
            => (request.pc = "next" /\ BearerForm(request.Authorization))
      ]_vars

----------------------------------------------------------------------------
\* What analyzeURL returned, against the document it was given.  The sets
\* below are taken over the nodes of the document as listed, not by a walk.

\* The runs that hold an Analysis.
Analyzed == { r \in RunIds : procs[r].analysis.fetched }

\* The elements of the document with the tag given.
ElementsOf(doc, tag) ==
    { i \in DOMAIN doc : doc[i].Type = "ElementNode" /\ doc[i].Data = tag }

\* The attributes of node i with the key given (by their place in Attr).
AttrsOf(doc, i, key) ==
    { k \in DOMAIN doc[i].Attr : doc[i].Attr[k].Key = key }

\* Node j lies below node i.
Below(doc, j, i) ==
    LET RECURSIVE up(_)
        up(k) == IF k = 0 THEN FALSE ELSE k = i \/ up(doc[k].parent)
    IN  j # i /\ up(j)

\* C16: for every document and every level k in 1..6 the counter of level k
\* that analyzeURL returns is the number of hk elements of the document,
\* wherever they stand.
C16_HeadingCounts ==
    \A r \in Analyzed :
        LET d == procs[r].page.doc
            a == procs[r].analysis
        IN  /\ a.H1Count = Cardinality(ElementsOf(d, "h1"))
            /\ a.H2Count = Cardinality(ElementsOf(d, "h2"))
            /\ a.H3Count = Cardinality(ElementsOf(d, "h3"))
            /\ a.H4Count = Cardinality(ElementsOf(d, "h4"))
            /\ a.H5Count = Cardinality(ElementsOf(d, "h5"))
            /\ a.H6Count = Cardinality(ElementsOf(d, "h6"))

\* A document with an h2 inside an h1 inside a form was analyzed.
C16_Witness ==
    \E r \in Analyzed :
        LET d == procs[r].page.doc
        IN  /\ procs[r].analysis.H1Count = 1
            /\ procs[r].analysis.H2Count = 1
            /\ \E i \in ElementsOf(d, "form") : \E j \in ElementsOf(d, "h1") :
               \E k \in ElementsOf(d, "h2") : Below(d, j, i) /\ Below(d, k, j)

\* The anchors that carry an href, and the value the claim classifies them
\* by (the first href).
HrefAnchors(doc) == { i \in ElementsOf(doc, "a") : AttrsOf(doc, i, "href") # {} }
FirstHref(doc, i) ==
    doc[i].Attr[CHOOSE k \in AttrsOf(doc, i, "href") :
                    \A l \in AttrsOf(doc, i, "href") : k <= l].Val
Http == <<"h", "t", "t", "p">>

\* C17 (as stated): every anchor that carries an href adds exactly one to
\* exactly one counter, to external_links when the raw href value starts
\* with http and to internal_links otherwise; so internal_links +
\* external_links is the number of anchors with an href.
C17_OnePerAnchor ==
    \A r \in Analyzed :
        LET d == procs[r].page.doc
            a == procs[r].analysis
        IN  /\ a.ExternalLinks = Cardinality(
                   { i \in HrefAnchors(d) : HasPrefix(FirstHref(d, i), Http) })
            /\ a.InternalLinks = Cardinality(
                   { i \in HrefAnchors(d) : ~HasPrefix(FirstHref(d, i), Http) })
            /\ a.InternalLinks + a.ExternalLinks = Cardinality(HrefAnchors(d))

\* The href attributes of the anchors of a document.
AnchorHrefs(doc) ==
    { ik \in (DOMAIN doc) \X (1..MaxAttrs) :
         ik[1] \in ElementsOf(doc, "a") /\ ik[2] \in AttrsOf(doc, ik[1], "href") }

\* C17 (as the loop over n.Attr counts): every href attribute of an anchor adds exactly one to
\* exactly one counter, to external_links when its raw value starts with
\* the letters http as written (valid URL or not) and to internal_links
\* otherwise; anchors without href and other elements add nothing.  So
\* internal_links + external_links is the number of href attributes of
\* anchors, which is the number of anchors with an href when no anchor
\* repeats the attribute.
C17_OnePerHref ==
    \A r \in Analyzed :
        LET d == procs[r].page.doc
            a == procs[r].analysis
        IN  /\ a.ExternalLinks = Cardinality(
                   { ik \in AnchorHrefs(d) : HasPrefix(d[ik[1]].Attr[ik[2]].Val, Http) })
            /\ a.InternalLinks = Cardinality(
                   { ik \in AnchorHrefs(d) : ~HasPrefix(d[ik[1]].Attr[ik[2]].Val, Http) })
            /\ a.InternalLinks + a.ExternalLinks = Cardinality(AnchorHrefs(d))
            /\ (\A i \in HrefAnchors(d) : Cardinality(AttrsOf(d, i, "href")) = 1)
                   => a.InternalLinks + a.ExternalLinks = Cardinality(HrefAnchors(d))

\* A document was analyzed that has an anchor without href, an anchor whose
\* href starts with http without being an absolute URL (external) and an
\* anchor whose href is an absolute URL in capitals (internal).
C17_Witness ==
    \E r \in Analyzed :
        LET d == procs[r].page.doc
        IN  /\ procs[r].analysis.ExternalLinks = 1
            /\ procs[r].analysis.InternalLinks = 1
            /\ ElementsOf(d, "a") \ HrefAnchors(d) # {}
            /\ \E i \in HrefAnchors(d) :
                   FirstHref(d, i) = <<"h", "t", "t", "p", "h", "o", "n", "y">>
            /\ \E i \in HrefAnchors(d) :
                   FirstHref(d, i) = <<"H", "T", "T", "P", ":", "/", "/", "x">>

\* Form i of the document is a login form: its action contains login or
\* signin, or an input of type password lies below it.
IsLoginForm(doc, i) ==
    \/ \E k \in AttrsOf(doc, i, "action") :
           \/ Contains(doc[i].Attr[k].Val, <<"l", "o", "g", "i", "n">>)
           \/ Contains(doc[i].Attr[k].Val, <<"s", "i", "g", "n", "i", "n">>)
    \/ \E j \in ElementsOf(doc, "input") :
           /\ Below(doc, j, i)
           /\ \E k \in AttrsOf(doc, j, "type") :
                  doc[j].Attr[k].Val = <<"p", "a", "s", "s", "w", "o", "r", "d">>

\* C19: for every document the login-form flag is true if and only if some
\* form of the document is a login form (by its action, or by a password
\* input below it); forms after it do not reset the flag, and a password
\* input outside every form does not set it.
C19_LoginFormFlag ==
    \A r \in Analyzed :
        LET d == procs[r].page.doc
        IN  procs[r].analysis.HasLoginForm
                <=> \E i \in ElementsOf(d, "form") : IsLoginForm(d, i)

\* A document was analyzed whose first form has the action /signin and no
\* password input, followed by a form that is no login form: the flag is
\* true.
C19_Witness ==
    \E r \in Analyzed :
        LET d == procs[r].page.doc
        IN  /\ procs[r].analysis.HasLoginForm
            /\ \E i, j \in ElementsOf(d, "form") :
                  /\ i < j
                  /\ \E k \in AttrsOf(d, i, "action") :
                         d[i].Attr[k].Val = <<"/", "s", "i", "g", "n", "i", "n">>
                  /\ ~IsLoginForm(d, j)
            /\ \A j \in ElementsOf(d, "input") : FALSE

\* The doctype nodes of a document, and the rules of the claim on a
\* declared value, in their order of priority.
Doctypes(doc) == { i \in DOMAIN doc : doc[i].Type = "DoctypeNode" }
Classified(value) ==
    LET has(sub) == Contains(ToLower(value), sub)
    IN  CASE has(<<"h", "t", "m", "l", " ", "5">>) \/ value = <<"h", "t", "m", "l">> -> "HTML5"
          [] has(<<"x", "h", "t", "m", "l", " ", "1", ".", "1">>) -> "XHTML 1.1"
          [] has(<<"x", "h", "t", "m", "l", " ", "1", ".", "0">>) -> "XHTML 1.0"
          [] has(<<"h", "t", "m", "l", " ", "4", ".", "0", "1">>) -> "HTML 4.01"
          [] has(<<"h", "t", "m", "l", " ", "4", ".", "0">>) -> "HTML 4.0"
          [] OTHER -> "HTML5"

LastDoctype ==
    \A r \in Analyzed :
        LET d == procs[r].page.doc
            last == CHOOSE i \in Doctypes(d) : \A j \in Doctypes(d) : i >= j
        IN  procs[r].analysis.HTMLVersion =
                IF Doctypes(d) = {} THEN "HTML5" ELSE Classified(d[last].Data)

----------------------------------------------------------------------------
\* One execution on pages whose probes the network answers in every way,
\* from analyzeURL to the end of the transaction.

\* The places of a document that checkInaccessibleLinks probes: the href
\* attributes of anchors whose value url.Parse accepts.
ProbeSites(doc) ==
    { ik \in AnchorHrefs(doc) : ~Parse(doc[ik[1]].Attr[ik[2]].Val).err }

\* The answers of the network to a probe: no connection, 200, 399, 400, 599
\* and 600.
Outcomes ==
    {Response(TRUE, 0), Response(FALSE, 200), Response(FALSE, 399),
     Response(FALSE, 400), Response(FALSE, 599), Response(FALSE, 600)}

\* Anchors to a page of the site, to another site, with an href that
\* url.Parse rejects, and without href.
ProbeKinds ==
    {Element("a", <<Href(About)>>),
     Element("a", <<Href(DeadLink)>>),
     Element("a", <<Href(<<":", "x">>)>>),
     Element("a", <<>>)}

\* The pages of a document: one for every way the network answers its probes.
Answered(d) ==
    { [doc |-> d, resp |-> resp] :
        resp \in [1..Cardinality(ProbeSites(d)) -> Outcomes] }

\* An anchor that carries href twice.
RepeatKinds == {Element("a", <<Href(About), Href(DeadLink)>>)}

NextProbe ==
    \/ \E r \in RunIds :
           /\ procs[r].pc = "analyze"
           /\ \E d \in Trees(ProbeKinds) : \E page \in Answered(d) : AnalyzeOk(r, page)
    \/ \E r \in RunIds :
           /\ procs[r].pc = "analyze"
           /\ \E d \in TreesOf(RepeatKinds, 1) : \E page \in Answered(d) : AnalyzeOk(r, page)
    \/ \E r \in RunIds, ok \in BOOLEAN : TxBegin(r, ok)
    \/ \E r \in RunIds, ok \in BOOLEAN : TxUpdate(r, ok)
    \/ \E r \in RunIds, ok \in BOOLEAN : TxInsert(r, ok)
    \/ \E r \in RunIds, ok \in BOOLEAN : TxCommit(r, ok)

SpecProbe == InitDoc /\ [][NextProbe]_vars

\* The probes of a page that failed: those answered with a connection error
\* or a status from 400 to 599.  The k-th probe sent is the k-th site in
\* document order.
FailedProbes(page) ==
    LET sites == ProbeSites(page.doc)
        rank(ik) == Cardinality({ jl \in sites :
                        jl[1] < ik[1] \/ (jl[1] = ik[1] /\ jl[2] <= ik[2]) })
    IN  { ik \in sites :
            LET got == page.resp[rank(ik)]
            IN  got.err \/ got.StatusCode \in 400..599 }

\* C12: whatever subset of the probes of a page fail, analyzeURL returns a
\* result whose broken-link list and count have one entry per failed probe;
\* no step of the execution from there on sets the job to error, and the
\* commit sets it to done with that count and that many broken-link records.
C12_ProbeFailureIsNoJobError ==
    [][\A r \in RunIds :
          /\ (procs[r].pc = "analyze" /\ procs'[r].pc # "analyze")
                => /\ procs'[r].pc = "begin"
                   /\ procs'[r].analysis.fetched
                   /\ Len(procs'[r].analysis.BrokenLinks)
                          = Cardinality(FailedProbes(procs'[r].page))
                   /\ procs'[r].analysis.InaccessibleLinks
                          = Cardinality(FailedProbes(procs'[r].page))
          /\ (procs[r].pc \in CommitPhase /\ procs'[r] # procs[r])
                => \A id \in DOMAIN analyses' :
                       analyses'[id].status = "error"
                           => id \in DOMAIN analyses /\ analyses[id].status = "error"
          /\ (procs[r].pc = "commit" /\ analyses' # analyses)
                => LET id == procs[r].id
                       n == Cardinality(FailedProbes(procs[r].page))
                   IN  /\ analyses'[id].status = "done"
                       /\ analyses'[id].cols.inaccessible_links = n
                       /\ Len(broken_links') = Len(broken_links) + n
      ]_vars

\* A page with three probes of which two failed was analyzed and committed:
\* the job is done with a count of two and two broken-link records.
C12_Witness ==
    /\ 1 \in DOMAIN analyses
    /\ analyses[1].status = "done"
    /\ analyses[1].cols.internal_links + analyses[1].cols.external_links = 3
    /\ analyses[1].cols.inaccessible_links = 2
    /\ Len(broken_links) = 2
    /\ \A k \in DOMAIN broken_links : broken_links[k].analysis_id = 1

----------------------------------------------------------------------------
\* One job for the example page, from the request to the commit, with a
\* scheduler that lets the poll loop and every execution take their steps
\* and with no stop, re-run or delete request and no failing statement.

SubmitExample == nextId = 1 /\ analyzeHandler(ExampleCom) /\ UNCHANGED app

\* The steps of the goroutine of startWorker.
WorkerStep == PollQuery(TRUE) \/ PollNext(TRUE) \/ PollClose \/ PollWake

\* The statements of one processAnalysis on the job store.
RunStep(r) ==
    \/ SetRunning(r, TRUE)
    \/ CheckStopped(r, TRUE)
    \/ TxBegin(r, TRUE)
    \/ TxUpdate(r, TRUE)
    \/ TxInsert(r, TRUE)
    \/ TxCommit(r, TRUE)

NextFair ==
    \/ SubmitExample
    \/ WorkerStep
    \/ \E r \in RunIds : RunStep(r)
    \/ \E r \in RunIds : AnalyzeOk(r, ExamplePage)

\* The scheduler lets the poll loop and every execution take the step they
\* are at, and analyzeURL returns (the client's timeout bounds the fetch and
\* every probe): no execution stays in it for ever.
SpecFair ==
    /\ Init
    /\ [][NextFair]_vars
    /\ WF_vars(WorkerStep)
    /\ \A r \in RunIds : WF_vars(RunStep(r))
    /\ \A r \in RunIds : []<>(procs[r].pc # "analyze")

\* Job 1 is done with the result of the example page.
ExampleDone ==
    /\ 1 \in DOMAIN analyses
    /\ analyses[1].status = "done"
    /\ analyses[1].cols.title = "Example"
    /\ analyses[1].cols.h1_count = 1
    /\ analyses[1].cols.internal_links = 1
    /\ analyses[1].cols.external_links = 1
    /\ analyses[1].cols.inaccessible_links = 1
    /\ LinksOf(broken_links, 1) = <<DeadLink>>

\* Job 1 has been submitted and no execution of it has been started.
Submitted ==
    /\ 1 \in DOMAIN analyses
    /\ analyses[1].status = "queued"
    /\ \A r \in RunIds : procs[r].pc = "none"

\* C15: a job submitted for the example page (title Example, one h1, one
\* internal link whose probe succeeds, one external link whose probe fails)
\* eventually is done with title Example, h1_count 1, internal_links 1,
\* external_links 1, inaccessible_links 1 and the dead link, resolved, as
\* its one broken link.
C15_ExampleEndsDone == Submitted ~> ExampleDone

\* The job is done with that result and every execution has ended.
C15_Witness ==
    /\ ExampleDone
    /\ \E r \in RunIds : procs[r].pc = "exit"
    /\ \A r \in RunIds : procs[r].pc \in {"none", "exit"}

----------------------------------------------------------------------------
\* Dispatch

\* The executions of job id that have started and not ended.
Live(id) == { r \in RunIds : procs[r].id = id /\ procs[r].pc \notin {"none", "exit"} }

\* C23: a poll observes every job that is queued, whether or not an
\* execution of it is live, and spawns an execution for the row it scans; so
\* with no re-run or start request two executions of one job run at once
\* and both come to their commit.
C23_PollRedispatches ==
    [][/\ (worker.pc = "query" /\ worker'.pc = "rows")
              => \A id \in DOMAIN analyses :
                     analyses[id].status = "queued"
                         => \E k \in DOMAIN worker'.rows : worker'.rows[k].id = id
       /\ \A r \in RunIds :
              (procs[r].pc = "none" /\ procs'[r].pc = "start")
                  => procs'[r].id = Head(worker.rows).id
      ]_vars

\* Two executions of job 1, submitted once, have both committed: the job
\* carries the dead link twice.
C23_Witness ==
    /\ nextId = 2
    /\ analyses[1].status = "done"
    /\ LinksOf(broken_links, 1) = <<DeadLink, DeadLink>>
    /\ Cardinality({ r \in RunIds : procs[r].pc = "exit" }) = 2

\* The poll loop has a next step.
LoopGoesOn ==
    ENABLED (\/ \E ok \in BOOLEAN : PollQuery(ok)
             \/ \E ok \in BOOLEAN : PollNext(ok)
             \/ PollClose
             \/ PollWake)

\* C25: a poll whose query fails starts no execution and changes no job and
\* no broken-link record, and goes to the sleep after which the loop polls
\* again; in every reachable state, whatever statements have failed, the poll
\* loop has a next step.
C25_PollErrorOnlySleeps ==
    /\ [](worker.pc \in {"query", "rows", "sleep"} /\ LoopGoesOn)
    /\ [][(worker.pc = "query" /\ worker' # worker /\ worker'.pc # "rows")
             => /\ worker' = [pc |-> "sleep", rows |-> <<>>]
                /\ UNCHANGED <<analyses, broken_links, procs>>
         ]_vars

\* The loop sleeps while a queued job has no execution: the state a failed
\* poll leaves when a job was waiting.
C25_Witness ==
    /\ worker.pc = "sleep"
    /\ \E id \in DOMAIN analyses : analyses[id].status = "queued" /\ Live(id) = {}
    /\ \E r \in RunIds : procs[r].pc = "exit" /\ ~procs[r].analysis.fetched

----------------------------------------------------------------------------
\* Executions and the rows of other jobs, and of deleted jobs

\* C28: every broken-link record names a job that is in the store; a job
\* that was deleted is never in the store again; and an execution whose job
\* is deleted before its commit stores nothing for it.
C28_NoRecordOfDeletedJob ==
    /\ [](\A k \in DOMAIN broken_links : broken_links[k].analysis_id \in DOMAIN analyses)
    /\ [][/\ \A id \in JobIds :
                 (id < nextId /\ id \notin DOMAIN analyses) => id \notin DOMAIN analyses'
          /\ \A r \in RunIds :
                 (procs[r].pc \notin {"none", "exit"} /\ procs'[r] # procs[r]
                      /\ procs[r].id \notin DOMAIN analyses)
                     => /\ analyses' = analyses
                        /\ broken_links' = broken_links
         ]_vars

\* A job was deleted while an execution of it was analyzing; the execution
\* has opened its transaction, its UPDATE found no row, and it is about to
\* insert a broken link for the job that is gone.
C28_Witness ==
    \E r \in RunIds :
        /\ procs[r].pc = "insert"
        /\ procs[r].id \notin DOMAIN analyses
        /\ ~procs[r].locked
        /\ procs[r].analysis.BrokenLinks # <<>>

\* C29: a step of an execution dispatched for job j leaves the record and
\* the broken-link records of every other job as they were.
C29_ExecutionTouchesOwnJob ==
    [][\A r \in RunIds :
          (procs[r].pc \notin {"none", "exit"} /\ procs'[r] # procs[r])
              => \A id \in JobIds \ {procs[r].id} :
                    /\ id \in DOMAIN analyses <=> id \in DOMAIN analyses'
                    /\ id \in DOMAIN analyses => analyses'[id] = analyses[id]
                    /\ LinksOf(broken_links', id) = LinksOf(broken_links, id)
      ]_vars

\* Job 2 is done with a result and broken links while job 1 is stopped
\* with no result and no broken link.
C29_Witness ==
    /\ DOMAIN analyses = {1, 2}
    /\ analyses[1].status = "stopped"
    /\ analyses[1].cols = DefaultCols
    /\ LinksOf(broken_links, 1) = <<>>
    /\ analyses[2].status = "done"
    /\ LinksOf(broken_links, 2) # <<>>

----------------------------------------------------------------------------
\* The poll loop and the executions under a fair scheduler, with statements
\* that may fail, one job submitted, stop and delete requests, and no re-run
\* or start request (a job that has left queued does not come back to it).

\* processAnalysis has returned: its goroutine is gone.
Reap(r) ==
    /\ procs[r].pc = "exit"
    /\ procs' = [procs EXCEPT ![r] = NoProc]
    /\ UNCHANGED <<app, analyses, broken_links, nextId, worker, reader, request>>

\* A step of the goroutine of startWorker.
PollStep ==
    \/ \E ok \in BOOLEAN : PollQuery(ok)
    \/ \E ok \in BOOLEAN : PollNext(ok)
    \/ PollClose
    \/ PollWake

\* A step of the goroutine of execution r on the job store, and its return
\* from analyzeURL with an error.
ExecStep(r) ==
    \/ \E ok \in BOOLEAN : SetRunning(r, ok)
    \/ \E ok \in BOOLEAN : CheckStopped(r, ok)
    \/ \E ok \in BOOLEAN : AnalyzeFail(r, ok)
    \/ \E ok \in BOOLEAN : TxBegin(r, ok)
    \/ \E ok \in BOOLEAN : TxUpdate(r, ok)
    \/ \E ok \in BOOLEAN : TxInsert(r, ok)
    \/ \E ok \in BOOLEAN : TxCommit(r, ok)
    \/ Reap(r)

NextLive ==
    \/ SubmitExample
    \/ \E id \in JobIds : stopAnalysisHandler(id)
    \/ \E id \in JobIds : deleteAnalysisHandler(id)
    \/ PollStep
    \/ \E r \in RunIds : ExecStep(r)
    \/ \E r \in RunIds, page \in Pages : AnalyzeOk(r, page)

\* Weak fairness of the poll loop and of every execution (an execution in
\* analyzeURL returns, with a result or with an error).
SpecLive ==
    /\ Init
    /\ [][NextLive]_vars
    /\ WF_vars(PollStep)
    /\ \A r \in RunIds : WF_vars(ExecStep(r))

\* Job id is queued; job id has left queued.
Queued(id) == id \in DOMAIN analyses /\ analyses[id].status = "queued"
LeftQueued(id) == ~Queued(id)

\* The poll query does not fail for ever.
QueryWorks == []<><<PollQuery(TRUE)>>_vars

\* C24 (as stated): under weak fairness of the poll loop and of executions,
\* and provided the poll query does not fail for ever, every job that is
\* queued eventually leaves queued.
C24_QueuedLeaves ==
    QueryWorks => \A id \in JobIds : Queued(id) ~> LeftQueued(id)

\* The scan of the row of job id, and the write of running by an execution
\* of job id, do not fail for ever.
ScanWorks(id) ==
    SF_vars(worker.pc = "rows" /\ worker.rows # <<>> /\ Head(worker.rows).id = id
                /\ PollNext(TRUE))
StartWorks(id) ==
    SF_vars(\E r \in RunIds : procs[r].id = id /\ SetRunning(r, TRUE))

\* C24 (amended): under weak fairness of the poll loop and of executions,
\* and provided that neither the poll query, nor the scan of the job's row,
\* nor the write of running by the job's executions fails for ever, every
\* job that is queued eventually leaves queued.
C24_QueuedLeavesUnlessFailing ==
    \A id \in JobIds :
        (QueryWorks /\ ScanWorks(id) /\ StartWorks(id))
            => (Queued(id) ~> LeftQueued(id))

\* A job is running, set so by its execution, after a poll that failed to
\* scan its row or an execution that failed to write running: no execution
\* of another job exists, and one has been reaped.
C24_Witness ==
    /\ DOMAIN analyses = {1}
    /\ analyses[1].status = "running"
    /\ procs[1].pc = "none"
    /\ procs[2].pc = "check"

----------------------------------------------------------------------------
\* The list of the link checker

\* The sites of a set in document order.
InOrder(sites) ==
    LET before(a, b) == a[1] < b[1] \/ (a[1] = b[1] /\ a[2] <= b[2])
        RECURSIVE sorted(_)
        sorted(S) == IF S = {} THEN <<>>
                     ELSE LET m == CHOOSE a \in S : \A b \in S : before(a, b)
                          IN  <<m>> \o sorted(S \ {m})
    IN  sorted(sites)

\* The absolute URL of an href of the page https://example.com: the href
\* itself when it names a site, the site followed by the href when it is a
\* path from the root.
Absolute(href) ==
    IF HasPrefix(href, <<"h", "t", "t", "p", "s", ":", "/", "/">>) THEN href
    ELSE ExampleCom \o href

\* C26: the list of the link checker is, in document order, the absolute
\* URL of every anchor href whose probe failed or was answered 400..599,
\* once per occurrence; an href that does not parse is not probed and a
\* probe answered otherwise adds nothing.
C26_ListIsFailedProbesInOrder ==
    \A r \in Analyzed :
        LET page == procs[r].page
            failed == InOrder(FailedProbes(page))
        IN  procs[r].analysis.BrokenLinks =
                [n \in 1..Len(failed) |->
                    Absolute(page.doc[failed[n][1]].Attr[failed[n][2]].Val)]

\* The list holds the same internal link twice with the dead link between
\* them, as the three anchors stand in the document.
C26_Witness ==
    \E r \in Analyzed :
        /\ procs[r].pc = "begin"
        /\ procs[r].analysis.BrokenLinks =
               <<ExampleCom \o About, DeadLink, ExampleCom \o About>>

----------------------------------------------------------------------------
\* The title

\* The title elements of a document that have a first child, and that child.
FirstChild(doc, i) ==
    CHOOSE c \in DOMAIN doc : doc[c].parent = i /\ \A j \in DOMAIN doc : doc[j].parent = i => c <= j
Titled(doc) ==
    { i \in ElementsOf(doc, "title") :
        \E c \in DOMAIN doc : doc[c].parent = i /\ doc[FirstChild(doc, i)].Type = "TextNode" }

\* C27: the title is the text of the first title element in document order
\* that has a text first child; later title elements do not change it, and
\* with no such element the title is not set.
C27_FirstTitleWins ==
    \A r \in Analyzed :
        LET d == procs[r].page.doc
            first == CHOOSE i \in Titled(d) : \A j \in Titled(d) : i <= j
        IN  procs[r].analysis.Title =
                IF Titled(d) = {} THEN "" ELSE d[FirstChild(d, first)].Data

\* What the walker leaves in Title: the Data of the first child, text or
\* not, of the last title element in document order that has a child.
LastTitleWins ==
    \A r \in Analyzed :
        LET d == procs[r].page.doc
            parents == { i \in ElementsOf(d, "title") : \E c \in DOMAIN d : d[c].parent = i }
            last == CHOOSE i \in parents : \A j \in parents : i >= j
        IN  procs[r].analysis.Title =
                IF parents = {} THEN "" ELSE d[FirstChild(d, last)].Data

----------------------------------------------------------------------------
\* The page in the browser and the two requests it sends.  A request is
\* sent, answered by the server (the middleware, then the handler, whose
\* reads are taken here in one step), and its answer is delivered to the
\* page.  A failed list request is delivered after the retries of the query.

\* The job store: what a step of the page alone leaves as it is.
backend == <<analyses, broken_links, nextId, worker, procs, reader, request>>

\* The values typed into "Enter a website URL".
TypedUrls == {<<>>} \cup Urls

\* apiClient: the Authorization header its interceptor puts on a request.
apiClient(apiKey) ==
    IF apiKey # <<>> THEN Bearer \o <<" ">> \o apiKey ELSE <<>>

\* A list query that runs whatever the key.
enabledAlways(apiKey) == TRUE

\* enabled: !!apiKey
enabled(apiKey) == apiKey # <<>>

\* data: results = []
results(a) ==
    LET data == a.queries[a.apiKey].data
    IN  IF data = Undefined THEN Array(<<>>) ELSE data

\* disabled={!apiKey || analyzeMutation.isPending} of the Analyze button.
disabled(a) == a.apiKey = <<>> \/ a.analyzeMutation.pc # "idle"

\* The query sends its request.  While a request of it is on its way no
\* second one is sent, unless the caller cancels refetches and the query
\* has data: then the request on its way is dropped for a new one.
fetch(q, apiKey, cancelRefetch) ==
    IF q.pc = "idle" \/ (cancelRefetch /\ q.data # Undefined)
    THEN [q EXCEPT !.pc = "sent", !.Authorization = apiClient(apiKey),
                   !.answer = NoAnswer]
    ELSE q

\* useQuery after a render with the key apiKey: the query of that key is
\* observed, and fetched when enabled (its data is stale at once).
useQuery(queries, apiKey) ==
    [queries EXCEPT ![apiKey] = IF enabled(apiKey) THEN fetch(@, apiKey, FALSE) ELSE @]

\* queryClient.invalidateQueries({ queryKey: ["analyses"] }): of the queries
\* it matches, the observed one is fetched again unless disabled.
invalidateQueries(queries, apiKey) ==
    [queries EXCEPT ![apiKey] = IF enabled(apiKey) THEN fetch(@, apiKey, TRUE) ELSE @]

\* onSuccess of analyzeMutation
onSuccess(a) ==
    [a EXCEPT !.queries = invalidateQueries(a.queries, a.apiKey), !.url = <<>>]

\* onChange of the key input
setApiKey(value) ==
    /\ value # app.apiKey
    /\ app' = [app EXCEPT !.apiKey = value, !.queries = useQuery(@, value)]
    /\ UNCHANGED backend

\* onChange of the URL input
setUrl(value) ==
    /\ value # app.url
    /\ app' = [app EXCEPT !.url = value]
    /\ UNCHANGED backend

\* handleSubmit: analyzeMutation.mutate(url) unless the URL is empty.
handleSubmit ==
    /\ app' = IF app.url = <<>> THEN app
              ELSE [app EXCEPT !.analyzeMutation =
                       [pc |-> "sent", url |-> app.url,
                        Authorization |-> apiClient(app.apiKey), status |-> 0]]
    /\ UNCHANGED backend

\* The form is submitted (a click on Analyze, Enter in the input): only
\* while its button is not disabled.
Submit == ~disabled(app) /\ handleSubmit

\* A click on Start Polling / Stop Polling (disabled without a key).
StartStopPolling ==
    /\ app.apiKey # <<>>
    /\ app' = [app EXCEPT !.isPolling = ~app.isPolling]
    /\ UNCHANGED backend

\* refetchInterval: isPolling ? 5000 : false, of an enabled query.
RefetchInterval ==
    /\ app.isPolling
    /\ enabled(app.apiKey)
    /\ app' = [app EXCEPT !.queries[app.apiKey] = fetch(@, app.apiKey, FALSE)]
    /\ UNCHANGED backend

\* refetchOnWindowFocus: true, of an enabled query.
WindowFocus ==
    /\ enabled(app.apiKey)
    /\ app' = [app EXCEPT !.queries[app.apiKey] = fetch(@, app.apiKey, FALSE)]
    /\ UNCHANGED backend

\* The server answers POST /api/analyze: 401 from authMiddleware, 200 from
\* analyzeHandler after its INSERT, 500 when the INSERT fails.
PostAnalyze(ok) ==
    /\ app.analyzeMutation.pc = "sent"
    /\ LET m == app.analyzeMutation
           passes == authResult(m.Authorization) = "next"
       IN  IF passes /\ ok
           THEN /\ analyzeHandler(m.url)
                /\ app' = [app EXCEPT !.analyzeMutation.pc = "answered",
                                      !.analyzeMutation.status = 200]
           ELSE /\ app' = [app EXCEPT !.analyzeMutation.pc = "answered",
                                      !.analyzeMutation.status =
                                          IF passes THEN 500 ELSE 401]
                /\ UNCHANGED backend

\* The answer reaches the mutation: it is no longer pending, and onSuccess
\* runs on a 2xx.
MutationSettled ==
    /\ app.analyzeMutation.pc = "answered"
    /\ LET a == [app EXCEPT !.analyzeMutation = NoMutation]
       IN  app' = IF app.analyzeMutation.status = 200 THEN onSuccess(a) ELSE a
    /\ UNCHANGED backend

\* c.JSON(http.StatusOK, analyses) of getAnalysesHandler: a nil slice (no
\* row) is the JSON null.
Json(list) == IF list = <<>> THEN JsonNull ELSE Array(list)

\* The rows getAnalysesHandler answers with.
Listing(tbl, links) ==
    LET rows == ListedRows(tbl)
    IN  [k \in 1..Len(rows) |->
            [id |-> rows[k].id, status |-> rows[k].status, cols |-> rows[k].cols,
             broken_links |-> LinksOf(links, rows[k].id)]]

\* The server answers GET /api/analyses of the query of key k: 401 from
\* authMiddleware, 200 with the rows, 500 when a statement fails.
GetAnalyses(k, ok) ==
    /\ app.queries[k].pc = "sent"
    /\ LET passes == authResult(app.queries[k].Authorization) = "next"
       IN  app' = [app EXCEPT
                      !.queries[k].pc = "answered",
                      !.queries[k].answer =
                          IF passes /\ ok
                          THEN [status |-> 200,
                                data |-> Json(Listing(analyses, broken_links))]
                          ELSE [status |-> IF passes THEN 500 ELSE 401,
                                data |-> Undefined]]
    /\ UNCHANGED backend

\* The answer reaches the query of key k: its data on a 2xx, else its error
\* (the data it had stays).
QuerySettled(k) ==
    /\ app.queries[k].pc = "answered"
    /\ LET q == app.queries[k]
       IN  app' = [app EXCEPT
                      !.queries[k] =
                          IF q.answer.status = 200
                          THEN [q EXCEPT !.pc = "idle", !.data = q.answer.data,
                                         !.error = FALSE, !.answer = NoAnswer]
                          ELSE [q EXCEPT !.pc = "idle", !.error = TRUE,
                                         !.answer = NoAnswer]]
    /\ UNCHANGED backend

\* The page of one user over a store that starts empty and has no worker.
NextApp ==
    \/ \E value \in ApiKeys : setApiKey(value)
    \/ \E value \in TypedUrls : setUrl(value)
    \/ Submit
    \/ StartStopPolling
    \/ RefetchInterval
    \/ WindowFocus
    \/ \E ok \in BOOLEAN : PostAnalyze(ok)
    \/ MutationSettled
    \/ \E k \in ApiKeys, ok \in BOOLEAN : GetAnalyses(k, ok)
    \/ \E k \in ApiKeys : QuerySettled(k)

SpecApp == Init /\ [][NextApp]_vars

----------------------------------------------------------------------------
\* The key, the list and the submission.

\* A step sends a request of the list for the query of key k.
ListRequested(k) == app.queries[k].pc # "sent" /\ app'.queries[k].pc = "sent"

\* C21: the list is never requested with an empty key (no step sends a
\* request unless it is for the key in the input, which is not empty) and
\* the Analyze button is disabled without a key (no submission is sent
\* without one); a step that puts a non-empty key into the input leaves a
\* list request for it on its way, and every list request carries
\* `Bearer <its key>`; the server answers with the rows of the store, and a
\* 200 answer delivered for the key in the input is the table's data; a
\* submission is sent only with a non-empty URL, carries that URL and the
\* key, inserts a queued job with that URL when the server accepts it, and
\* when its 200 answer is delivered a list request for the key in the input
\* is on its way, a new one if the table already had data.
C21_KeyGatesListAndSubmit ==
    /\ [](/\ app.queries[<<>>] = NoQuery
          /\ app.apiKey = <<>> => disabled(app)
          /\ \A k \in ApiKeys :
                app.queries[k].pc # "idle"
                   => app.queries[k].Authorization = Bearer \o <<" ">> \o k
          /\ app.analyzeMutation.pc # "idle"
                => /\ app.analyzeMutation.url # <<>>
                   /\ \E k \in ApiKeys \ {<<>>} :
                          app.analyzeMutation.Authorization = Bearer \o <<" ">> \o k)
    /\ [][/\ \A k \in ApiKeys :
                ListRequested(k) => k # <<>> /\ k = app'.apiKey
          /\ (app'.apiKey # app.apiKey /\ app'.apiKey # <<>>)
                => app'.queries[app'.apiKey].pc # "idle"
          /\ \A k \in ApiKeys :
                ( /\ app.queries[k].pc = "sent"
                  /\ app'.queries[k].pc = "answered"
                  /\ app'.queries[k].answer.status = 200 )
                => app'.queries[k].answer.data.rows = Listing(analyses, broken_links)
          /\ \A k \in ApiKeys :
                ( /\ app.queries[k].pc = "answered"
                  /\ app.queries[k].answer.status = 200
                  /\ app'.queries[k].pc = "idle"
                  /\ k = app'.apiKey )
                => results(app').rows = app.queries[k].answer.data.rows
          /\ (app.analyzeMutation.pc = "idle" /\ app'.analyzeMutation.pc = "sent")
                => /\ app.apiKey # <<>>
                   /\ app.url # <<>>
                   /\ app'.analyzeMutation.url = app.url
                   /\ app'.analyzeMutation.Authorization
                         = Bearer \o <<" ">> \o app.apiKey
          /\ (~disabled(app) /\ app.url # <<>> /\ app'.analyzeMutation # app.analyzeMutation)
                => app'.analyzeMutation.pc = "sent"
          /\ ( /\ app.analyzeMutation.pc = "sent"
               /\ app'.analyzeMutation.pc = "answered"
               /\ app'.analyzeMutation.status = 200 )
                => /\ nextId' = nextId + 1
                   /\ analyses' = analyses @@
                         (nextId :> [url |-> app.analyzeMutation.url,
                                     status |-> "queued", cols |-> DefaultCols])
          /\ ( /\ app.analyzeMutation.pc = "answered"
               /\ app.analyzeMutation.status = 200
               /\ app'.analyzeMutation.pc = "idle"
               /\ app'.apiKey # <<>> )
                => LET q == app.queries[app.apiKey]
                       q1 == app'.queries[app'.apiKey]
                   IN  /\ q1.pc # "idle"
                       /\ q.data # Undefined => q1.pc = "sent" /\ q1.answer = NoAnswer
      ]_vars

\* The key test1234 was entered, the example URL was submitted and the list
\* was asked for again: the table shows the queued job, the URL input is
\* empty and no request is on its way.
C21_Witness ==
    /\ app.apiKey = TestKey
    /\ app.url = <<>>
    /\ app.analyzeMutation = NoMutation
    /\ app.queries[TestKey].pc = "idle"
    /\ nextId = 2
    /\ results(app).rows = Listing(analyses, broken_links)
    /\ Len(results(app).rows) = 1
    /\ results(app).rows[1].status = "queued"

----------------------------------------------------------------------------
\* The page and the worker together: the user of the README enters the key
\* test1234 and submits the example URL once, and from the moment the job
\* is in the store only watches the table (before that the user may click
\* Start/Stop Polling and leave and come back to the window).  Requests are
\* answered and their answers delivered, no statement fails, and the
\* scheduler lets the poll loop and every execution take their steps.

\* What the page and the server do on their own.
Network ==
    \/ PostAnalyze(TRUE)
    \/ MutationSettled
    \/ GetAnalyses(TestKey, TRUE)
    \/ QuerySettled(TestKey)
    \/ RefetchInterval

\* No job has been stored yet.
NoJobYet == nextId = 1

NextAppLive ==
    \/ NoJobYet /\ setApiKey(TestKey)
    \/ NoJobYet /\ setUrl(ExampleCom)
    \/ NoJobYet /\ Submit
    \/ NoJobYet /\ StartStopPolling
    \/ NoJobYet /\ WindowFocus
    \/ Network
    \/ WorkerStep
    \/ \E r \in RunIds : RunStep(r)
    \/ \E r \in RunIds : AnalyzeOk(r, ExamplePage)

SpecAppLive ==
    /\ Init
    /\ [][NextAppLive]_vars
    /\ WF_vars(Network)
    /\ WF_vars(WorkerStep)
    /\ \A r \in RunIds : WF_vars(RunStep(r))
    /\ \A r \in RunIds : []<>(procs[r].pc # "analyze")

\* The submitted job has its result; the table shows the job with it.
JobDone == 1 \in DOMAIN analyses /\ analyses[1].status = "done"
ShownDone ==
    \E k \in DOMAIN results(app).rows :
        /\ results(app).rows[k].id = 1
        /\ results(app).rows[k].status = "done"

\* C22: once the submitted job is done, the table comes to show it as done
\* with no action of the user after the submission.
C22_ResultAppears == JobDone ~> ShownDone

\* The same for a user who had clicked Start Polling before submitting:
\* it is that click that brings the result into the table.
ResultAppearsWhilePolling == (<>[]app.isPolling) => (JobDone ~> ShownDone)

====
